---------------------------- MODULE Spec2Model ----------------------------
(***************************************************************************)
(* The SourcePawn preprocessor of sourcepawn-lsp:                          *)
(*   src/src/sourcepawn_preprocessor/preprocessor.rs  (directive processor)*)
(*   src/src/sourcepawn_preprocessor/macros.rs        (macro expander)     *)
(* One action is one iteration of the main loop of preprocess_input.       *)
(* The lexer (crate sourcepawn_lexer), the condition evaluator             *)
(* (evaluator.rs) and the include resolver of the Store are not part of    *)
(* the sources at hand: they are modelled from their description.          *)
(***************************************************************************)
EXTENDS Integers, Sequences, FiniteSets, TLC

VARIABLES
    input,                     \* the token stream the lexer was built over
    allow_undefined_in_main,   \* the allow_undefined_macros the main loop passes
    lexer,                     \* SourcepawnPreprocessor.lexer
    macros,                    \* SourcepawnPreprocessor.macros
    expansion_stack,           \* SourcepawnPreprocessor.expansion_stack
    skip_line_start_col,
    skipped_lines,
    macro_not_found_errors,
    evaluation_errors,
    evaluated_define_symbols,
    current_line,
    prev_end,
    conditions_stack,
    out,
    store,                     \* the &mut Store handed to preprocess_input
    status,                    \* "running", "ok", "error", "panic"
    result,                    \* the value preprocess_input returned
    err,                       \* the message of the error it returned
    arms,                      \* history: per open chain, how many arms were active
    tick                       \* history: parity of the main-loop iterations made

vars == <<input, allow_undefined_in_main, lexer, macros, expansion_stack, skip_line_start_col,
          skipped_lines, macro_not_found_errors, evaluation_errors,
          evaluated_define_symbols, current_line, prev_end, conditions_stack,
          out, store, status, result, err, arms, tick>>

----------------------------------------------------------------------------
(* Bounds of the checked inputs.                                           *)

MaxLines == 3

----------------------------------------------------------------------------
(* Small helpers.                                                          *)

None == [kind |-> "None"]

Last(s) == s[Len(s)]

Front(s) == SubSeq(s, 1, Len(s) - 1)

Reverse(s) == [i \in 1..Len(s) |-> s[Len(s) + 1 - i]]

Empties(n) == [i \in 1..n |-> <<>>]

Abs(n) == IF n < 0 THEN -n ELSE n

Repeat(x, n) == [i \in 1..n |-> x]

RangeOf(sl, sc, el, ec) == [sl |-> sl, sc |-> sc, el |-> el, ec |-> ec]

SymRange(sym) == RangeOf(sym.line, sym.col, sym.eline, sym.ecol)

----------------------------------------------------------------------------
(* The lexer: an iterator of Symbols with the side-band in_preprocessor.   *)

Tok(kind, text, dcol) == [kind |-> kind, text |-> text, dcol |-> dcol, nl |-> 0]

TokML(kind, text, dcol, nl) == [kind |-> kind, text |-> text, dcol |-> dcol, nl |-> nl]

DirectiveKinds == {"MIf", "MElseif", "MElse", "MEndif", "MDefine", "MInclude", "MPragma"}

\* The directives after which the scanner is on a directive line.
LineDirectiveKinds == {"MIf", "MElseif", "MElse", "MEndif", "MDefine"}

LexerNew(toks) ==
    [toks |-> toks, line_number |-> 0, col |-> 0,
     in_preprocessor |-> FALSE, eof |-> FALSE]

in_preprocessor(lx) == lx.in_preprocessor /\ ~lx.eof

\* The Symbol that lexer.next() returns (None when the iterator is exhausted).
\* A line break ends on the next line, column 0.
LexerSymbol(lx) ==
    IF lx.toks = <<>>
    THEN IF lx.eof THEN None
         ELSE [kind |-> "Eof", text |-> "", dcol |-> 0,
               line |-> lx.line_number, col |-> lx.col,
               eline |-> lx.line_number, ecol |-> lx.col, d |-> 0]
    ELSE LET t == Head(lx.toks)
             brk == t.kind \in {"Newline", "LineContinuation"}
         IN [kind |-> t.kind, text |-> t.text, dcol |-> t.dcol,
             line |-> lx.line_number, col |-> lx.col + t.dcol,
             eline |-> IF brk THEN lx.line_number + 1 ELSE lx.line_number + t.nl,
             ecol |-> IF brk THEN 0 ELSE lx.col + t.dcol + Len(t.text),
             d |-> 0]

\* The lexer after lexer.next().
LexerAdvance(lx) ==
    IF lx.toks = <<>>
    THEN [lx EXCEPT !.eof = TRUE]
    ELSE LET t == Head(lx.toks)
             brk == t.kind \in {"Newline", "LineContinuation"}
         IN [lx EXCEPT !.toks = Tail(lx.toks),
                       !.line_number = IF brk THEN @ + 1 ELSE @ + t.nl,
                       !.col = IF brk THEN 0 ELSE @ + t.dcol + Len(t.text),
                       !.in_preprocessor =
                           IF t.kind = "Newline" THEN FALSE
                           ELSE IF t.kind \in LineDirectiveKinds THEN TRUE
                           ELSE @]

\* "while self.lexer.in_preprocessor() { if let Some(symbol) = self.lexer.next() ..."
\* the symbols of the rest of the directive line, and the lexer after them.
RECURSIVE ReadDirectiveLine(_, _)
ReadDirectiveLine(lx, acc) ==
    IF ~in_preprocessor(lx)
    THEN [lexer |-> lx, symbols |-> acc]
    ELSE ReadDirectiveLine(LexerAdvance(lx), Append(acc, LexerSymbol(lx)))

\* Symbol::to_int: the text parsed as a decimal number, -1 for no number.
IntTexts == <<"0", "1", "2", "3", "4", "5", "6", "7", "8", "9", "10", "11">>

to_int(text) ==
    IF \E i \in 1..Len(IntTexts) : IntTexts[i] = text
    THEN (CHOOSE i \in 1..Len(IntTexts) : IntTexts[i] = text) - 1
    ELSE -1


----------------------------------------------------------------------------
(* The preprocessor's fields as one record, so that the handlers can be    *)
(* written as the functions of the state that they are.  err is the error  *)
(* a handler returned with `?` ("" for none); panicked records a Rust      *)
(* panic (an index out of bounds).                                         *)

State ==
    [lexer |-> lexer, macros |-> macros, expansion_stack |-> expansion_stack,
     skip_line_start_col |-> skip_line_start_col, skipped_lines |-> skipped_lines,
     macro_not_found_errors |-> macro_not_found_errors,
     evaluation_errors |-> evaluation_errors,
     evaluated_define_symbols |-> evaluated_define_symbols,
     current_line |-> current_line, prev_end |-> prev_end,
     conditions_stack |-> conditions_stack, out |-> out, store |-> store,
     err |-> "", panicked |-> FALSE]

\* SourcepawnPreprocessor::new, over the Store the caller holds.
new(toks, st) ==
    [lexer |-> LexerNew(toks), macros |-> <<>>, expansion_stack |-> <<>>,
     skip_line_start_col |-> 0, skipped_lines |-> <<>>,
     macro_not_found_errors |-> <<>>, evaluation_errors |-> <<>>,
     evaluated_define_symbols |-> <<>>, current_line |-> <<>>, prev_end |-> 0,
     conditions_stack |-> <<>>, out |-> <<>>, store |-> st,
     err |-> "", panicked |-> FALSE]

Fail(s, msg) == [s EXCEPT !.err = msg]

Panic(s, msg) == [s EXCEPT !.err = msg, !.panicked = TRUE]

StructuralErrors ==
    {"Expect if before else clause.", "Expect if before endif clause",
     "Expect if before elseif clause."}

\* The output line is a sequence of token texts; whitespace is one " " per column.
push_ws(s, symbol) ==
    [s EXCEPT !.current_line = @ \o Repeat(" ", Abs(symbol.dcol))]

push_current_line(s) == [s EXCEPT !.out = Append(@, s.current_line)]

push_symbol(s, symbol) ==
    IF symbol.kind = "Eof"
    THEN push_current_line(s)
    ELSE [push_ws(s, symbol) EXCEPT !.prev_end = symbol.ecol,
                                    !.current_line = Append(@, symbol.text)]

\* reset_line without its first assignment: the line's text is not cleared.
reset_line_keeps_text(s) == [s EXCEPT !.prev_end = 0]

\* "self.current_line = "".to_string(); self.prev_end = 0;"
reset_line(s) == [s EXCEPT !.current_line = <<>>, !.prev_end = 0]

----------------------------------------------------------------------------
(* The condition evaluator (IfCondition::evaluate): the value of the       *)
(* expression after #if / #elseif.  The modelled expressions are an        *)
(* integer literal, an identifier (a macro whose body is an integer        *)
(* literal; an unknown identifier is recorded and counts as false) and     *)
(* defined(NAME); anything else is an evaluation error.                    *)

Significant(symbols) ==
    SelectSeq(symbols, LAMBDA y : y.kind \notin {"Newline", "Eof", "LineContinuation"})

IntValue(sig) ==
    IF Len(sig) = 1 /\ sig[1].kind = "Int" THEN to_int(sig[1].text) ELSE -1

EvaluateSignificant(mac, sig) ==
    IF IntValue(sig) >= 0
    THEN [value |-> IntValue(sig) # 0, error |-> FALSE, not_found |-> <<>>]
    ELSE IF Len(sig) = 1 /\ sig[1].kind = "Identifier"
    THEN IF sig[1].text \in DOMAIN mac
         THEN [value |-> IntValue(Significant(mac[sig[1].text].body)) > 0,
               error |-> IntValue(Significant(mac[sig[1].text].body)) < 0,
               not_found |-> <<>>]
         ELSE [value |-> FALSE, error |-> FALSE,
               not_found |-> <<[macro_name |-> sig[1].text, range |-> SymRange(sig[1])]>>]
    ELSE IF Len(sig) = 4 /\ sig[1].text = "defined" /\ sig[2].kind = "LParen"
            /\ sig[3].kind = "Identifier" /\ sig[4].kind = "RParen"
    THEN [value |-> sig[3].text \in DOMAIN mac, error |-> FALSE, not_found |-> <<>>]
    ELSE [value |-> FALSE, error |-> TRUE, not_found |-> <<>>]

IfConditionEvaluate(mac, line_nb, symbols) ==
    EvaluateSignificant(mac, Significant(symbols))

----------------------------------------------------------------------------
(* The conditional state machine.                                          *)

\* apply_if_condition where a condition that fails to evaluate counts as true.
apply_if_condition_default_true(s, symbol, r, ev) ==
    LET if_condition_eval == IF ev.error THEN TRUE ELSE ev.value
        line_diff == IF r.symbols = <<>> THEN 0 ELSE Last(r.symbols).eline - symbol.line
    IN [s EXCEPT
          !.lexer = r.lexer,
          !.evaluated_define_symbols =
              @ \o SelectSeq(r.symbols, LAMBDA y : y.kind = "Identifier"),
          !.evaluation_errors =
              IF ev.error
              THEN Append(@, [text |-> "invalid", range |-> SymRange(symbol)])
              ELSE @,
          !.skip_line_start_col = IF if_condition_eval THEN @ ELSE symbol.ecol,
          !.conditions_stack =
              Append(@, IF if_condition_eval THEN "Active" ELSE "NotActivated"),
          !.macro_not_found_errors = @ \o ev.not_found,
          !.out = @ \o Empties(line_diff),
          !.prev_end = 0]

\* process_if_directive recording the start column of the directive, not its
\* end column, when the condition is false.
apply_if_condition_start_col(s, symbol, r, ev) ==
    LET if_condition_eval == IF ev.error THEN FALSE ELSE ev.value
        line_diff == IF r.symbols = <<>> THEN 0 ELSE Last(r.symbols).eline - symbol.line
    IN [s EXCEPT
          !.lexer = r.lexer,
          !.evaluated_define_symbols =
              @ \o SelectSeq(r.symbols, LAMBDA y : y.kind = "Identifier"),
          !.evaluation_errors =
              IF ev.error
              THEN Append(@, [text |-> "invalid", range |-> SymRange(symbol)])
              ELSE @,
          !.skip_line_start_col = IF if_condition_eval THEN @ ELSE symbol.col,
          !.conditions_stack =
              Append(@, IF if_condition_eval THEN "Active" ELSE "NotActivated"),
          !.macro_not_found_errors = @ \o ev.not_found,
          !.out = @ \o Empties(line_diff),
          !.prev_end = 0]

\* process_if_directive once the condition's symbols r.symbols are read and
\* evaluated to ev.
apply_if_condition(s, symbol, r, ev) ==
    LET if_condition_eval == IF ev.error THEN FALSE ELSE ev.value
        line_diff == IF r.symbols = <<>> THEN 0 ELSE Last(r.symbols).eline - symbol.line
    IN [s EXCEPT
          !.lexer = r.lexer,
          !.evaluated_define_symbols =
              @ \o SelectSeq(r.symbols, LAMBDA y : y.kind = "Identifier"),
          !.evaluation_errors =
              IF ev.error
              THEN Append(@, [text |-> "invalid", range |-> SymRange(symbol)])
              ELSE @,
          !.skip_line_start_col = IF if_condition_eval THEN @ ELSE symbol.ecol,
          !.conditions_stack =
              Append(@, IF if_condition_eval THEN "Active" ELSE "NotActivated"),
          !.macro_not_found_errors = @ \o ev.not_found,
          !.out = @ \o Empties(line_diff),
          !.prev_end = 0]

read_if_condition(s, symbol, r) ==
    apply_if_condition(s, symbol, r, IfConditionEvaluate(s.macros, symbol.line, r.symbols))

process_if_directive(s, symbol) ==
    read_if_condition(s, symbol, ReadDirectiveLine(s.lexer, <<>>))

\* process_else_directive without the assignment of skip_line_start_col.
process_else_directive_keeps_col(s, symbol) ==
    IF s.conditions_stack = <<>>
    THEN Fail(s, "Expect if before else clause.")
    ELSE LET last == Last(s.conditions_stack)
             popped == Front(s.conditions_stack)
         IN IF last = "NotActivated"
            THEN [s EXCEPT !.conditions_stack = Append(popped, "Active")]
            ELSE [s EXCEPT !.conditions_stack = Append(popped, "Activated")]

\* process_else_directive where #else activates whatever was not emitting.
process_else_directive_toggle(s, symbol) ==
    IF s.conditions_stack = <<>>
    THEN Fail(s, "Expect if before else clause.")
    ELSE LET last == Last(s.conditions_stack)
             popped == Front(s.conditions_stack)
         IN IF last # "Active"
            THEN [s EXCEPT !.conditions_stack = Append(popped, "Active")]
            ELSE [s EXCEPT !.skip_line_start_col = symbol.ecol,
                           !.conditions_stack = Append(popped, "Activated")]

process_else_directive(s, symbol) ==
    IF s.conditions_stack = <<>>
    THEN Fail(s, "Expect if before else clause.")
    ELSE LET last == Last(s.conditions_stack)
             popped == Front(s.conditions_stack)
         IN IF last = "NotActivated"
            THEN [s EXCEPT !.conditions_stack = Append(popped, "Active")]
            ELSE [s EXCEPT !.skip_line_start_col = symbol.ecol,
                           !.conditions_stack = Append(popped, "Activated")]

\* process_endif_directive closing every open conditional at once.
process_endif_directive_clears(s, symbol) ==
    IF s.conditions_stack = <<>>
    THEN Fail(s, "Expect if before endif clause")
    ELSE [s EXCEPT !.conditions_stack = <<>>]

\* process_endif_directive where an #endif on an empty stack is ignored.
process_endif_directive_lenient(s, symbol) ==
    IF s.conditions_stack = <<>>
    THEN s
    ELSE LET popped == Front(s.conditions_stack)
         IN IF popped # <<>> /\ Last(popped) # "Active"
            THEN [s EXCEPT
                    !.conditions_stack = popped,
                    !.skipped_lines =
                        Append(@, RangeOf(symbol.line, s.skip_line_start_col,
                                          symbol.line, symbol.ecol))]
            ELSE [s EXCEPT !.conditions_stack = popped]

process_endif_directive(s, symbol) ==
    IF s.conditions_stack = <<>>
    THEN Fail(s, "Expect if before endif clause")
    ELSE LET popped == Front(s.conditions_stack)
         IN IF popped # <<>> /\ Last(popped) # "Active"
            THEN [s EXCEPT
                    !.conditions_stack = popped,
                    !.skipped_lines =
                        Append(@, RangeOf(symbol.line, s.skip_line_start_col,
                                          symbol.line, symbol.ecol))]
            ELSE [s EXCEPT !.conditions_stack = popped]

\* The MElseif arm, the same in process_directive and process_negative_condition.
\* The MElseif arm evaluating its condition whatever the popped state was.
process_elseif_directive_always_evaluates(s, symbol) ==
    IF s.conditions_stack = <<>>
    THEN Fail(s, "Expect if before elseif clause.")
    ELSE process_if_directive([s EXCEPT !.conditions_stack = Front(@)], symbol)

\* The MElseif arm leaving a NotActivated state as it is, the condition unread.
process_elseif_directive_unevaluated(s, symbol) ==
    IF s.conditions_stack = <<>>
    THEN Fail(s, "Expect if before elseif clause.")
    ELSE IF Last(s.conditions_stack) = "NotActivated"
    THEN s
    ELSE [s EXCEPT !.conditions_stack = Append(Front(@), "Activated")]

process_elseif_directive(s, symbol) ==
    IF s.conditions_stack = <<>>
    THEN Fail(s, "Expect if before elseif clause.")
    ELSE IF Last(s.conditions_stack) = "NotActivated"
    THEN process_if_directive([s EXCEPT !.conditions_stack = Front(@)], symbol)
    ELSE [s EXCEPT !.conditions_stack = Append(Front(@), "Activated")]

\* process_negative_condition whose MIf arm pushes NotActivated.
process_negative_condition_pushes_not_activated(s, symbol) ==
    CASE symbol.kind = "MIf" ->
            [s EXCEPT !.conditions_stack = Append(@, "NotActivated")]
      [] symbol.kind = "MEndif" -> process_endif_directive(s, symbol)
      [] symbol.kind = "MElse" -> process_else_directive(s, symbol)
      [] symbol.kind = "MElseif" -> process_elseif_directive(s, symbol)
      [] symbol.kind = "Newline" ->
            reset_line([push_current_line(s) EXCEPT
                 !.skipped_lines =
                     Append(@, RangeOf(symbol.line, s.skip_line_start_col,
                                       symbol.line, symbol.col))])
      [] symbol.kind = "Identifier" ->
            [s EXCEPT !.evaluated_define_symbols = Append(@, symbol)]
      [] OTHER -> s

\* process_negative_condition without its Identifier arm.
process_negative_condition_drops_identifier(s, symbol) ==
    CASE symbol.kind = "MIf" ->
            [s EXCEPT !.conditions_stack = Append(@, "Activated")]
      [] symbol.kind = "MEndif" -> process_endif_directive(s, symbol)
      [] symbol.kind = "MElse" -> process_else_directive(s, symbol)
      [] symbol.kind = "MElseif" -> process_elseif_directive(s, symbol)
      [] symbol.kind = "Newline" ->
            reset_line([push_current_line(s) EXCEPT
                 !.skipped_lines =
                     Append(@, RangeOf(symbol.line, s.skip_line_start_col,
                                       symbol.line, symbol.col))])
      [] OTHER -> s

\* process_negative_condition whose MIf arm evaluates the condition as the
\* #if of active code does.
process_negative_condition_evaluates_if(s, symbol) ==
    CASE symbol.kind = "MIf" -> process_if_directive(s, symbol)
      [] symbol.kind = "MEndif" -> process_endif_directive(s, symbol)
      [] symbol.kind = "MElse" -> process_else_directive(s, symbol)
      [] symbol.kind = "MElseif" -> process_elseif_directive(s, symbol)
      [] symbol.kind = "Newline" ->
            reset_line([push_current_line(s) EXCEPT
                 !.skipped_lines =
                     Append(@, RangeOf(symbol.line, s.skip_line_start_col,
                                       symbol.line, symbol.col))])
      [] symbol.kind = "Identifier" ->
            [s EXCEPT !.evaluated_define_symbols = Append(@, symbol)]
      [] OTHER -> s

process_negative_condition(s, symbol) ==
    CASE symbol.kind = "MIf" ->
            [s EXCEPT !.conditions_stack = Append(@, "Activated")]
      [] symbol.kind = "MEndif" -> process_endif_directive(s, symbol)
      [] symbol.kind = "MElse" -> process_else_directive(s, symbol)
      [] symbol.kind = "MElseif" -> process_elseif_directive(s, symbol)
      [] symbol.kind = "Newline" ->
            reset_line([push_current_line(s) EXCEPT
                 !.skipped_lines =
                     Append(@, RangeOf(symbol.line, s.skip_line_start_col,
                                       symbol.line, symbol.col))])
      [] symbol.kind = "Identifier" ->
            [s EXCEPT !.evaluated_define_symbols = Append(@, symbol)]
      [] OTHER -> s

----------------------------------------------------------------------------
(* The macro expander (macros.rs).  A symbol pushed onto the expansion     *)
(* stack carries, in d, the depth of the work-stack entry it came from.    *)

\* The depth test one level late.
depth_cap_at_six(d) == d = 6

\* "if d == 5 { continue; }"
depth_cap_reached(d) == d = 5

\* Macro.args: None is the empty sequence; Some(v) holds v[k+1] for v[k].
NoArgs == <<>>

Macro(args, body) == [args |-> args, body |-> body]

WorkItem(symbol, dcol, d) == [symbol |-> symbol, dcol |-> dcol, d |-> d]

ParseIntError == "ParseInt"

MacroNotFound == "MacroNotFound"

\* The loop of collect_arguments runs over the state
\* c = [lexer, args_stack, paren_depth, arg_idx, args, new_args_stack, panicked, done];
\* args is the ten buckets, args[k+1] the bucket of index k.  done: the loop
\* was left (break, or the iterator returned None).
collect_requeue(c, sub) ==
    IF c.paren_depth > 1 THEN [c EXCEPT !.new_args_stack = Append(@, sub)] ELSE c

\* "paren_depth -= 1; if paren_depth == 0 { break; }"
collect_close(c) ==
    [c EXCEPT !.paren_depth = @ - 1, !.done = (c.paren_depth - 1 = 0)]

\* The match on sub_symbol.token_kind, t being the state after sub was taken.
collect_match(t, sub) ==
    CASE sub.kind = "LParen" -> [t EXCEPT !.paren_depth = @ + 1]
      [] sub.kind = "RParen" -> collect_close(collect_requeue(t, sub))
      [] sub.kind = "Comma" ->
            IF t.paren_depth = 1 THEN [t EXCEPT !.arg_idx = @ + 1] ELSE t
      [] OTHER ->
            IF t.paren_depth = 1
            THEN IF t.arg_idx + 1 \in DOMAIN t.args
                 THEN [t EXCEPT !.args[t.arg_idx + 1] = Append(@, sub)]
                 ELSE [t EXCEPT !.panicked = TRUE, !.done = TRUE]
            ELSE t

\* "if paren_depth > 1 { new_args_stack.push(sub_symbol.clone()); }" after the match.
collect_after_match(m, sub) == IF m.done THEN m ELSE collect_requeue(m, sub)

\* One iteration: the symbol comes from args_stack if it holds any, else from the lexer.
collect_step(c) ==
    IF c.args_stack # <<>>
    THEN collect_after_match(
             collect_match([c EXCEPT !.args_stack = Front(@)], Last(c.args_stack)),
             Last(c.args_stack))
    ELSE IF LexerSymbol(c.lexer) = None THEN [c EXCEPT !.done = TRUE]
    ELSE collect_after_match(
             collect_match([c EXCEPT !.lexer = LexerAdvance(@)], LexerSymbol(c.lexer)),
             LexerSymbol(c.lexer))

RECURSIVE collect_loop(_)
collect_loop(c) == IF c.done THEN c ELSE collect_loop(collect_step(c))

\* "new_args_stack.reverse(); args_stack.extend(new_args_stack); args"
collect_result(c) ==
    [lexer |-> c.lexer, args |-> c.args, panicked |-> c.panicked,
     args_stack |-> c.args_stack \o Reverse(c.new_args_stack)]

collect_arguments(lx, args_stack) ==
    collect_result(
        collect_loop([lexer |-> lx, args_stack |-> args_stack, paren_depth |-> 0,
                      arg_idx |-> 0, args |-> [k \in 1..10 |-> <<>>],
                      new_args_stack |-> <<>>, panicked |-> FALSE, done |-> FALSE]))

\* The work-stack entries of the symbols of `syms`, the first with the delta
\* of the invocation.
PushAll(stack, syms, symbol, d) ==
    stack \o [i \in 1..Len(syms) |->
                WorkItem(syms[i], IF i = 1 THEN symbol.dcol ELSE syms[i].dcol, d + 1)]

\* expand_non_macro_define pushing the body from its last symbol to its first.
expand_non_macro_define_reversed(macro_, stack, symbol, d) ==
    PushAll(stack, Reverse(macro_.body), symbol, d)

expand_non_macro_define(macro_, stack, symbol, d) ==
    PushAll(stack, macro_.body, symbol, d)

\* The IntegerLiteral arm of expand_macro after a single `%`: the `%` is
\* popped and the bucket bound to the literal is pushed.
substitute_argument(args, macro_, symbol, d, child, e) ==
    LET popped == [e EXCEPT !.stack = Front(@)]
        arg_idx == to_int(child.text)
        bound == macro_.args[arg_idx + 1]
    IN IF arg_idx < 0 \/ arg_idx >= 10 THEN [popped EXCEPT !.err = ParseIntError]
       ELSE IF arg_idx + 1 \notin DOMAIN macro_.args
       THEN [popped EXCEPT !.err = "index out of bounds", !.panicked = TRUE]
       ELSE IF bound >= 10 THEN [popped EXCEPT !.err = ParseIntError]
       ELSE IF bound + 1 \notin DOMAIN args
       THEN [popped EXCEPT !.err = "index out of bounds", !.panicked = TRUE]
       ELSE [popped EXCEPT !.stack = PushAll(@, args[bound + 1], symbol, d),
                           !.consecutive_percent = 0]

\* One iteration of the loop of expand_macro, for the i-th symbol of the body,
\* over e = [stack, consecutive_percent, err, panicked].
expand_macro_step(args, macro_, symbol, d, i, e) ==
    LET child == macro_.body[i]
        n == e.consecutive_percent + 1
    IN CASE child.kind = "Percent" ->
              [e EXCEPT !.consecutive_percent = n,
                        !.stack = IF n % 2 = 1
                                  THEN Append(@, WorkItem(child, child.dcol, d + 1))
                                  ELSE @]
         [] child.kind = "Int" ->
              IF e.consecutive_percent = 1
              THEN substitute_argument(args, macro_, symbol, d, child, e)
              ELSE [e EXCEPT !.stack = Append(@, WorkItem(child, child.dcol, d + 1)),
                             !.consecutive_percent = 0]
         [] OTHER ->
              [e EXCEPT !.stack = Append(@, WorkItem(child,
                                     IF i = 1 THEN symbol.dcol ELSE child.dcol, d + 1)),
                        !.consecutive_percent = 0]

RECURSIVE expand_macro_loop(_, _, _, _, _, _)
expand_macro_loop(args, macro_, symbol, d, i, e) ==
    IF i > Len(macro_.body) \/ e.err # "" THEN e
    ELSE expand_macro_loop(args, macro_, symbol, d, i + 1,
                           expand_macro_step(args, macro_, symbol, d, i, e))

expand_macro(args, macro_, stack, symbol, d) ==
    expand_macro_loop(args, macro_, symbol, d, 1,
                      [stack |-> stack, consecutive_percent |-> 0, err |-> "",
                       panicked |-> FALSE])

\* expansion_stack.push(symbol), with the depth it was produced at.
emit_expanded(x, sym, d) == [x EXCEPT !.expansion_stack = Append(@, [sym EXCEPT !.d = d])]

\* The function-like branch of expand_symbol once collect_arguments returned c
\* and expand_macro returned e.
after_expand_macro(q, c, e) ==
    [q EXCEPT !.lexer = c.lexer, !.args_stack = c.args_stack,
              !.stack = e.stack, !.err = e.err, !.panicked = e.panicked]

after_collect_arguments(macro_, q, symbol, d, c) ==
    IF c.panicked
    THEN [q EXCEPT !.lexer = c.lexer, !.args_stack = c.args_stack,
                   !.err = "index out of bounds", !.panicked = TRUE]
    ELSE after_expand_macro(q, c, expand_macro(c.args, macro_, q.stack, symbol, d))

\* The Identifier arm of expand_symbol for a name of the macro table; q is the
\* loop state after "expanded_macros.push".
expand_defined(macro_, q, symbol, d) ==
    IF macro_.args = NoArgs
    THEN [q EXCEPT !.stack = expand_non_macro_define(macro_, @, symbol, d)]
    ELSE after_collect_arguments(macro_, q, symbol, d,
                                 collect_arguments(q.lexer, q.args_stack))

expand_macro_identifier(mac, p, symbol, d) ==
    expand_defined(mac[symbol.text],
                   IF d = 0 THEN [p EXCEPT !.expanded_macros = Append(@, symbol)] ELSE p,
                   symbol, d)

\* expand_step without the arm that discards Newline, LineContinuation and
\* line comments: they are pushed like any other symbol.
expand_step_keeps_line_ends(mac, allow_undefined_macros, x) ==
    LET item == Last(x.stack)
        symbol == item.symbol
        d == item.d
        p == [x EXCEPT !.stack = Front(@)]
    IN IF depth_cap_reached(d) THEN p
       ELSE CASE symbol.kind = "Identifier" ->
                   IF symbol.text \notin DOMAIN mac
                   THEN IF ~allow_undefined_macros
                        THEN [p EXCEPT !.err = MacroNotFound,
                                       !.not_found = [macro_name |-> symbol.text,
                                                      range |-> SymRange(symbol)]]
                        ELSE emit_expanded(p, [symbol EXCEPT !.dcol = item.dcol], d)
                   ELSE expand_macro_identifier(mac, p, symbol, d)
              [] symbol.kind \in {"Str", "Char"} ->
                   emit_expanded(p, [symbol EXCEPT !.eline = symbol.line,
                                                   !.ecol = symbol.col + Len(symbol.text)], d)
              [] OTHER -> emit_expanded(p, [symbol EXCEPT !.dcol = item.dcol], d)

\* One iteration of the loop of expand_symbol over
\* x = [stack, args_stack, lexer, expansion_stack, expanded_macros, err, not_found, panicked].
expand_step(mac, allow_undefined_macros, x) ==
    LET item == Last(x.stack)
        symbol == item.symbol
        d == item.d
        p == [x EXCEPT !.stack = Front(@)]
    IN IF depth_cap_reached(d) THEN p
       ELSE CASE symbol.kind = "Identifier" ->
                   IF symbol.text \notin DOMAIN mac
                   THEN IF ~allow_undefined_macros
                        THEN [p EXCEPT !.err = MacroNotFound,
                                       !.not_found = [macro_name |-> symbol.text,
                                                      range |-> SymRange(symbol)]]
                        ELSE emit_expanded(p, [symbol EXCEPT !.dcol = item.dcol], d)
                   ELSE expand_macro_identifier(mac, p, symbol, d)
              [] symbol.kind \in {"Str", "Char"} ->
                   emit_expanded(p, [symbol EXCEPT !.eline = symbol.line,
                                                   !.ecol = symbol.col + Len(symbol.text)], d)
              [] symbol.kind \in {"Newline", "LineContinuation", "LineComment"} -> p
              [] OTHER -> emit_expanded(p, [symbol EXCEPT !.dcol = item.dcol], d)

RECURSIVE expand_loop(_, _, _)
expand_loop(mac, allow_undefined_macros, x) ==
    IF x.stack = <<>> \/ x.err # "" THEN x
    ELSE expand_loop(mac, allow_undefined_macros,
                     expand_step(mac, allow_undefined_macros, x))

expand_symbol(lx, mac, symbol, stack, allow_undefined_macros) ==
    expand_loop(mac, allow_undefined_macros,
                [stack |-> <<WorkItem(symbol, symbol.dcol, 0)>>, args_stack |-> <<>>,
                 lexer |-> lx, expansion_stack |-> stack, expanded_macros |-> <<>>,
                 err |-> "", not_found |-> None, panicked |-> FALSE])

----------------------------------------------------------------------------
(* #define and #include.                                                   *)

\* An insert that keeps the entry a name already has.
MapInsert_if_absent(m, k, v) ==
    [n \in DOMAIN m \cup {k} |-> IF n \in DOMAIN m THEN m[n] ELSE v]

MapInsert(m, k, v) == [n \in DOMAIN m \cup {k} |-> IF n = k THEN v ELSE m[n]]

\* An extend that keeps the entry the table already holds.
MapExtend_keep_existing(m, more) ==
    [n \in DOMAIN m \cup DOMAIN more |-> IF n \in DOMAIN m THEN m[n] ELSE more[n]]

\* FxHashMap::extend: the entries of `more` overwrite those of m.
MapExtend(m, more) ==
    [n \in DOMAIN m \cup DOMAIN more |-> IF n \in DOMAIN more THEN more[n] ELSE m[n]]

\* "let mut args = vec![-1, 10];"
args_init == <<-1, 10>>

\* The State::Args arm of the MDefine loop, for a symbol with delta.col = 0.
define_args(t, m, symbol) ==
    LET n == to_int(symbol.text)
    IN CASE symbol.kind = "RParen" -> [t EXCEPT !.state = "Body"]
         [] symbol.kind = "Int" ->
              IF n < 0 THEN [t EXCEPT !.s = Fail(m, "Could not convert to an int value.")]
              ELSE IF n + 1 \notin DOMAIN t.args
              THEN [t EXCEPT !.s = Panic(m, "index out of bounds")]
              ELSE [t EXCEPT !.found_args = TRUE, !.args[n + 1] = t.args_idx]
         [] symbol.kind = "Comma" -> [t EXCEPT !.args_idx = @ + 1]
         [] symbol.kind = "Percent" -> t
         [] OTHER -> [t EXCEPT !.s = Fail(m, "Unexpected symbol in macro args")]

\* define_match whose State::Start arm moves to State::Body without pushing
\* the symbol it holds: the first body token is left out of the body.
define_match_skips_first(ds, t, m, symbol) ==
    CASE ds.state = "Start" ->
            IF ds.macro_name = "" /\ symbol.kind = "Identifier"
            THEN [t EXCEPT !.macro_name = symbol.text]
            ELSE IF symbol.dcol = 0 /\ symbol.kind = "LParen"
            THEN [t EXCEPT !.state = "Args"]
            ELSE [t EXCEPT !.state = "Body"]
      [] ds.state = "Args" ->
            IF symbol.dcol > 0
            THEN [t EXCEPT !.body = Append(@, symbol), !.state = "Body"]
            ELSE define_args(t, m, symbol)
      [] OTHER -> [t EXCEPT !.body = Append(@, symbol), !.state = "Body"]

\* The match on the state of the MDefine loop; t is the loop state after the
\* symbol was mirrored into the output, m its preprocessor.
define_match(ds, t, m, symbol) ==
    CASE ds.state = "Start" ->
            IF ds.macro_name = "" /\ symbol.kind = "Identifier"
            THEN [t EXCEPT !.macro_name = symbol.text]
            ELSE IF symbol.dcol = 0 /\ symbol.kind = "LParen"
            THEN [t EXCEPT !.state = "Args"]
            ELSE [t EXCEPT !.body = Append(@, symbol), !.state = "Body"]
      [] ds.state = "Args" ->
            IF symbol.dcol > 0
            THEN [t EXCEPT !.body = Append(@, symbol), !.state = "Body"]
            ELSE define_args(t, m, symbol)
      [] OTHER -> [t EXCEPT !.body = Append(@, symbol), !.state = "Body"]

\* "self.push_ws(&symbol); self.prev_end = ...; if !matches!(.., Newline | Eof)
\*  { self.current_line.push_str(&symbol.text()); }"
define_mirror(s, symbol) ==
    [push_ws(s, symbol) EXCEPT
        !.prev_end = symbol.ecol,
        !.current_line = IF symbol.kind \in {"Newline", "Eof"}
                         THEN @ ELSE Append(@, symbol.text)]

define_mirrored(ds, m, symbol) == define_match(ds, [ds EXCEPT !.s = m], m, symbol)

\* One iteration of the loop of the MDefine arm, over
\* ds = [s, macro_name, body, args, found_args, state, args_idx].
define_step(ds) ==
    define_mirrored(ds,
                    define_mirror([ds.s EXCEPT !.lexer = LexerAdvance(@)],
                                  LexerSymbol(ds.s.lexer)),
                    LexerSymbol(ds.s.lexer))

RECURSIVE define_loop(_)
define_loop(ds) ==
    IF ~in_preprocessor(ds.s.lexer) \/ ds.s.err # "" THEN ds
    ELSE define_loop(define_step(ds))

\* The end of the MDefine arm without the test of found_args.
define_insert_args_always(ds) ==
    IF ds.s.err # "" THEN ds.s
    ELSE [reset_line(push_current_line(ds.s)) EXCEPT
            !.macros = MapInsert(@, ds.macro_name, Macro(ds.args, ds.body))]

\* The end of the MDefine arm, ds being the state the loop ended in.
define_insert(ds) ==
    IF ds.s.err # "" THEN ds.s
    ELSE [reset_line(push_current_line(ds.s)) EXCEPT
            !.macros = MapInsert(@, ds.macro_name,
                                 Macro(IF ds.found_args THEN ds.args ELSE NoArgs, ds.body))]

process_define(s, symbol) ==
    define_insert(
        define_loop([s |-> push_symbol(s, symbol), macro_name |-> "", body |-> <<>>,
                     args |-> args_init, found_args |-> FALSE, state |-> "Start",
                     args_idx |-> 0]))

\* The include targets of the modelled inputs: what RE1 (<...>) and RE2 ("...")
\* capture in the text of the directive.
RE1_capture(text) ==
    CASE text = "#include <a>" -> "a"
      [] text = "#include <b>" -> "b"
      [] text = "#include <nofile>" -> "nofile"
      [] OTHER -> ""

RE2_capture(text) ==
    CASE text = "#include \"a\"" -> "a"
      [] OTHER -> ""

\* The include resolver: store.resolve_import followed by
\* store.preprocess_document_by_uri.  store.documents maps the paths that
\* resolve to the macro table of the document; store.calls records the paths
\* the resolver was asked for.
resolve_and_preprocess(s, path) ==
    IF path \in DOMAIN s.store.documents
    THEN [s EXCEPT !.store.calls = Append(@, path),
                   !.macros = MapExtend(@, s.store.documents[path])]
    ELSE [s EXCEPT !.store.calls = Append(@, path)]

\* A captured path that does not resolve makes the directive fail.
include_if_captured_strict(s, path) ==
    IF path = "" THEN s
    ELSE IF path \in DOMAIN s.store.documents THEN resolve_and_preprocess(s, path)
    ELSE Fail(s, "Could not resolve include.")

include_if_captured(s, path) ==
    IF path # "" THEN resolve_and_preprocess(s, path) ELSE s

\* The end of the MInclude arm: the directive is emitted and, when it spans
\* delta > 0 further lines, the line is closed and delta - 1 empty lines follow.
include_emit(s, delta) ==
    IF delta > 0
    THEN [reset_line(push_current_line(s)) EXCEPT !.out = @ \o Empties(delta - 1)]
    ELSE s

process_include(s, symbol) ==
    include_emit(
        push_symbol(
            include_if_captured(include_if_captured(s, RE1_capture(symbol.text)),
                                RE2_capture(symbol.text)),
            [symbol EXCEPT !.eline = symbol.line, !.ecol = Len(symbol.text)]),
        symbol.eline - symbol.line)

process_directive(s, symbol) ==
    CASE symbol.kind = "MIf" -> process_if_directive(s, symbol)
      [] symbol.kind = "MElseif" -> process_elseif_directive(s, symbol)
      [] symbol.kind = "MDefine" -> process_define(s, symbol)
      [] symbol.kind = "MEndif" -> process_endif_directive(s, symbol)
      [] symbol.kind = "MElse" -> process_else_directive(s, symbol)
      [] symbol.kind = "MInclude" -> process_include(s, symbol)
      [] OTHER -> push_symbol(s, symbol)

----------------------------------------------------------------------------
(* add_diagnostics: the diagnostics handed to the caller.                  *)

\* One iteration of the loop of get_disabled_diagnostics over `ranges`.
\* (range.start.line - 1 is a u32; no skipped range starts on line 0.)
coalesce_step(ranges, range) ==
    IF ranges # <<>>
    THEN IF Last(ranges).el = range.sl - 1
         THEN Append(Front(ranges),
                     RangeOf(Last(ranges).sl, Last(ranges).sc, range.el, range.ec))
         ELSE ranges
    ELSE <<range>>

RECURSIVE coalesce_loop(_, _)
coalesce_loop(ranges, rest) ==
    IF rest = <<>> THEN ranges
    ELSE coalesce_loop(coalesce_step(ranges, Head(rest)), Tail(rest))

Diagnostic(range, message, severity) ==
    [range |-> range, message |-> message, severity |-> severity]

get_disabled_diagnostics(s) ==
    LET ranges == coalesce_loop(<<>>, s.skipped_lines)
    IN [i \in 1..Len(ranges) |->
          Diagnostic(ranges[i], "Code disabled by the preprocessor.", "HINT")]

get_macro_not_found_diagnostics(s) ==
    [i \in 1..Len(s.macro_not_found_errors) |->
        Diagnostic(s.macro_not_found_errors[i].range,
                   <<"Macro ", s.macro_not_found_errors[i].macro_name, " not found.">>, "ERROR")]

get_evaluation_error_diagnostics(s) ==
    [i \in 1..Len(s.evaluation_errors) |->
        Diagnostic(s.evaluation_errors[i].range,
                   <<"Preprocessor condition is invalid: ", s.evaluation_errors[i].text>>,
                   "ERROR")]

add_diagnostics(s) ==
    get_disabled_diagnostics(s) \o get_macro_not_found_diagnostics(s)
        \o get_evaluation_error_diagnostics(s)

----------------------------------------------------------------------------
(* preprocess_input: one action per iteration of its main loop.            *)

NoResult == [ok |-> FALSE, text |-> <<>>]

\* out.join("\n"): the lines' pieces with a "\n" between two lines.
RECURSIVE Join(_)
Join(lines) ==
    IF lines = <<>> THEN <<>>
    ELSE IF Len(lines) = 1 THEN lines[1]
    ELSE lines[1] \o <<"\n">> \o Join(Tail(lines))

Ok(lines) == [ok |-> TRUE, text |-> Join(lines)]

FromStack == expansion_stack # <<>>

\* "if !self.expansion_stack.is_empty() { self.expansion_stack.pop() } else { self.lexer.next() }"
CurrentSymbol == IF FromStack THEN Last(expansion_stack) ELSE LexerSymbol(lexer)

Taken ==
    IF FromStack THEN [State EXCEPT !.expansion_stack = Front(@)]
    ELSE [State EXCEPT !.lexer = LexerAdvance(@)]

\* The skip test that forgets the Activated state.
IsSkipping_not_activated_only(stack) == stack # <<>> /\ Last(stack) = "NotActivated"

IsSkipping(stack) == stack # <<>> /\ Last(stack) \in {"Activated", "NotActivated"}

Skipping == IsSkipping(conditions_stack)

\* The history of the chains: arms[i] counts the arms of the i-th open chain
\* that were entered with the top of the stack Active.
ArmsAfter(new_stack, symbol) ==
    LET one == IF new_stack # <<>> /\ Last(new_stack) = "Active" THEN 1 ELSE 0
    IN IF Len(new_stack) > Len(conditions_stack) THEN Append(arms, one)
       ELSE IF Len(new_stack) < Len(conditions_stack) THEN Front(arms)
       ELSE IF new_stack # <<>> /\ symbol.kind \in {"MElse", "MElseif"}
       THEN [arms EXCEPT ![Len(arms)] = @ + one]
       ELSE arms

\* The preprocessor after an iteration that left it in s; st is "running" when
\* the loop goes on and "ok" when it returned Ok(out.join("\n")).
Commit(s, st) ==
    \E t \in {s} :
        /\ lexer' = t.lexer
        /\ macros' = t.macros
        /\ expansion_stack' = t.expansion_stack
        /\ skip_line_start_col' = t.skip_line_start_col
        /\ skipped_lines' = t.skipped_lines
        /\ macro_not_found_errors' = t.macro_not_found_errors
        /\ evaluation_errors' = t.evaluation_errors
        /\ evaluated_define_symbols' = t.evaluated_define_symbols
        /\ current_line' = t.current_line
        /\ prev_end' = t.prev_end
        /\ conditions_stack' = t.conditions_stack
        /\ out' = t.out
        /\ store' = t.store
        /\ status' = IF t.panicked THEN "panic" ELSE IF t.err # "" THEN "error" ELSE st
        /\ err' = t.err
        /\ result' = IF t.err = "" /\ st = "ok" THEN Ok(t.out) ELSE NoResult
        /\ arms' = ArmsAfter(t.conditions_stack, CurrentSymbol)
        /\ tick' = ~tick
        /\ UNCHANGED <<input, allow_undefined_in_main>>

Running == status = "running"

\* The exhausted iterator does not end the loop.
Return_keeps_running ==
    /\ status = "running"
    /\ CurrentSymbol = None
    /\ Commit(State, "running")

\* The iterator is exhausted: the while-let ends and Ok(out.join("\n")) is returned.
Return ==
    /\ Running
    /\ CurrentSymbol = None
    /\ Commit(State, "ok")

NegativeCondition ==
    /\ Running
    /\ CurrentSymbol # None
    /\ Skipping
    /\ Commit(process_negative_condition(Taken, CurrentSymbol), "running")

Directive ==
    /\ Running
    /\ ~Skipping
    /\ CurrentSymbol.kind \in DirectiveKinds
    /\ Commit(process_directive(Taken, CurrentSymbol), "running")

Newline ==
    /\ Running
    /\ ~Skipping
    /\ CurrentSymbol.kind = "Newline"
    /\ Commit(reset_line(push_current_line(push_ws(Taken, CurrentSymbol))), "running")

\* The Identifier arm for a name of the macro table, x being what
\* expand_symbol returned and left in the lexer and the expansion stack.
\* The Err(MacroNotFound) arm returning the error without recording it.
after_expand_symbol_unrecorded(s, x) ==
    [s EXCEPT !.lexer = x.lexer,
              !.expansion_stack = x.expansion_stack,
              !.err = x.err,
              !.panicked = x.panicked]

after_expand_symbol(s, x) ==
    [s EXCEPT !.lexer = x.lexer,
              !.expansion_stack = x.expansion_stack,
              !.macro_not_found_errors =
                  IF ~x.panicked /\ x.err = MacroNotFound THEN Append(@, x.not_found) ELSE @,
              !.err = x.err,
              !.panicked = x.panicked]

\* The call of preprocess_input names four arguments where expand_symbol
\* takes five: the allow_undefined_macros it is built with is either value.
expand_identifier(s, symbol) ==
    after_expand_symbol(s, expand_symbol(s.lexer, s.macros, symbol, s.expansion_stack,
                                         allow_undefined_in_main))

IdentifierMacro ==
    /\ Running
    /\ ~Skipping
    /\ CurrentSymbol.kind = "Identifier"
    /\ CurrentSymbol.text \in DOMAIN macros
    /\ Commit(expand_identifier(Taken, CurrentSymbol), "running")

\* The Identifier arm for any other name, reporting the name as a missing macro.
emit_identifier_reporting(s, symbol) ==
    [push_symbol(s, symbol) EXCEPT
        !.macro_not_found_errors =
            Append(@, [macro_name |-> symbol.text, range |-> SymRange(symbol)])]

\* The Identifier arm for any other name.
emit_identifier(s, symbol) == push_symbol(s, symbol)

IdentifierPlain ==
    /\ Running
    /\ ~Skipping
    /\ CurrentSymbol.kind = "Identifier"
    /\ CurrentSymbol.text \notin DOMAIN macros
    /\ Commit(emit_identifier(Taken, CurrentSymbol), "running")

Eof ==
    /\ Running
    /\ ~Skipping
    /\ CurrentSymbol.kind = "Eof"
    /\ Commit(push_current_line(push_ws(Taken, CurrentSymbol)), "ok")

OtherSymbol ==
    /\ Running
    /\ ~Skipping
    /\ CurrentSymbol.kind \notin DirectiveKinds \cup {"None", "Newline", "Identifier", "Eof"}
    /\ Commit(push_symbol(Taken, CurrentSymbol), "running")

Next ==
    \/ Return
    \/ NegativeCondition
    \/ Directive
    \/ Newline
    \/ IdentifierMacro
    \/ IdentifierPlain
    \/ Eof
    \/ OtherSymbol

----------------------------------------------------------------------------
(* The inputs: token streams made of whole lines of a catalogue, the last  *)
(* line with or without its line break.                                    *)

NL == Tok("Newline", "\n", 0)

LineIf1 == <<Tok("MIf", "#if", 0), Tok("Int", "1", 1)>>
LineIf0 == <<Tok("MIf", "#if", 0), Tok("Int", "0", 1)>>
LineIfUndef == <<Tok("MIf", "#if", 0), Tok("Identifier", "UNDEF", 1)>>
LineIfBad == <<Tok("MIf", "#if", 0), Tok("Other", "+", 1)>>
LineElseif1 == <<Tok("MElseif", "#elseif", 0), Tok("Int", "1", 1)>>
LineElse == <<Tok("MElse", "#else", 0)>>
LineEndif == <<Tok("MEndif", "#endif", 0)>>
LineX == <<Tok("Identifier", "x", 0)>>

CondLines ==
    {LineIf1, LineIf0, LineIfUndef, LineIfBad, LineElseif1, LineElse, LineEndif, LineX}

LineDefA == <<Tok("MDefine", "#define", 0), Tok("Identifier", "A", 1), Tok("Int", "1", 1)>>
LineUseA == <<Tok("Identifier", "A", 0), Tok("Other", ";", 0)>>
\* #define R 1 R: a macro that names itself.
LineDefR ==
    <<Tok("MDefine", "#define", 0), Tok("Identifier", "R", 1), Tok("Int", "1", 1),
      Tok("Identifier", "R", 1)>>
LineUseR == <<Tok("Identifier", "R", 0)>>
\* #define B y: a body that names an identifier that is no macro.
LineDefB == <<Tok("MDefine", "#define", 0), Tok("Identifier", "B", 1), Tok("Identifier", "y", 1)>>
LineUseB == <<Tok("Identifier", "B", 0)>>
\* #define F(%0) %1: the body names a formal the parameter list does not declare.
LineDefF ==
    <<Tok("MDefine", "#define", 0), Tok("Identifier", "F", 1), Tok("LParen", "(", 0),
      Tok("Percent", "%", 0), Tok("Int", "0", 0), Tok("RParen", ")", 0),
      Tok("Percent", "%", 1), Tok("Int", "1", 0)>>
LineUseF ==
    <<Tok("Identifier", "F", 0), Tok("LParen", "(", 0), Tok("Int", "2", 0),
      Tok("RParen", ")", 0)>>
\* #define G(%0) %0 and its use G(2).
LineDefG ==
    <<Tok("MDefine", "#define", 0), Tok("Identifier", "G", 1), Tok("LParen", "(", 0),
      Tok("Percent", "%", 0), Tok("Int", "0", 0), Tok("RParen", ")", 0),
      Tok("Percent", "%", 1), Tok("Int", "0", 0)>>
LineUseG ==
    <<Tok("Identifier", "G", 0), Tok("LParen", "(", 0), Tok("Int", "2", 0),
      Tok("RParen", ")", 0)>>
\* #define P Q and #define Q 2 P: two macros that name each other.
LineDefP == <<Tok("MDefine", "#define", 0), Tok("Identifier", "P", 1), Tok("Identifier", "Q", 1)>>
LineDefQ ==
    <<Tok("MDefine", "#define", 0), Tok("Identifier", "Q", 1), Tok("Int", "2", 1),
      Tok("Identifier", "P", 1)>>
LineUseP == <<Tok("Identifier", "P", 0)>>
LineInclude == <<Tok("MInclude", "#include <a>", 0)>>
LineIncludeNoFile == <<Tok("MInclude", "#include <nofile>", 0)>>
LinePragma == <<Tok("MPragma", "#pragma semicolon 1", 0)>>
LineIncludeB == <<Tok("MInclude", "#include <b>", 0)>>
\* #define M 3 and the use of M, a name both included documents define.
LineDefM == <<Tok("MDefine", "#define", 0), Tok("Identifier", "M", 1), Tok("Int", "3", 1)>>
LineUseM == <<Tok("Identifier", "M", 0)>>

IncludeLines == {LineInclude, LineIncludeB, LineDefM, LineUseM}

\* #define M(%0) %0 and #define M 4 4: M defined again, with other arguments and body.
LineDefMFn ==
    <<Tok("MDefine", "#define", 0), Tok("Identifier", "M", 1), Tok("LParen", "(", 0),
      Tok("Percent", "%", 0), Tok("Int", "0", 0), Tok("RParen", ")", 0),
      Tok("Percent", "%", 1), Tok("Int", "0", 0)>>
LineDefM44 ==
    <<Tok("MDefine", "#define", 0), Tok("Identifier", "M", 1), Tok("Int", "4", 1),
      Tok("Int", "4", 1)>>

RedefineLines == {LineDefM, LineDefMFn, LineDefM44}

\* #define N c d, #define W a N b and the use x W ;
LineDefN ==
    <<Tok("MDefine", "#define", 0), Tok("Identifier", "N", 1), Tok("Other", "c", 1),
      Tok("Other", "d", 1)>>
LineDefW ==
    <<Tok("MDefine", "#define", 0), Tok("Identifier", "W", 1), Tok("Other", "a", 1),
      Tok("Identifier", "N", 1), Tok("Other", "b", 1)>>
LineUseW == <<Tok("Identifier", "x", 0), Tok("Identifier", "W", 1), Tok("Other", ";", 1)>>

MacroLines == {LineDefR, LineUseR, LineDefB, LineUseB, LineDefP, LineDefQ, LineUseP}

\* Lines without a directive: int z = x;  /  "s" 7  /  x
LineDecl ==
    <<Tok("Identifier", "int", 0), Tok("Identifier", "z", 1), Tok("Other", "=", 1),
      Tok("Identifier", "x", 1), Tok("Other", ";", 0)>>
LineLiterals == <<Tok("Str", "\"s\"", 2), Tok("Int", "7", 1)>>
LineEmpty == <<>>

PlainLines == {LineDecl, LineLiterals, LineX, LineEmpty}

RECURSIVE Concat(_, _)
Concat(lines, final_newline) ==
    IF lines = <<>> THEN <<>>
    ELSE IF Len(lines) = 1
    THEN IF final_newline THEN lines[1] \o <<NL>> ELSE lines[1]
    ELSE lines[1] \o <<NL>> \o Concat(Tail(lines), final_newline)

LineSeqs(catalogue, n) == UNION {[1..k -> catalogue] : k \in 1..n}

Programs(catalogue, n) ==
    {Concat(ls, nl) : ls \in LineSeqs(catalogue, n), nl \in BOOLEAN}

\* A #define and an #include inside a disabled region, then a use of the name.
InputDisabledDefine == Concat(<<LineIf0, LineDefA, LineInclude, LineEndif, LineUseA>>, TRUE)

\* Two disabled regions that are not adjacent, then an #endif too many.
InputTwoRegions ==
    Concat(<<LineIf0, LineX, LineElse, LineElse, LineX, LineEndif, LineEndif>>, TRUE)

\* A disabled region, a failed condition and an unknown name, then F(2).
InputParseIntLate ==
    Concat(<<LineDefF, LineIfBad, LineX, LineElseif1, LineIfUndef, LineEndif, LineEndif,
             LineUseF>>, TRUE)

InputDirectives ==
    Concat(<<LineInclude, LineIncludeNoFile, LinePragma, LineDefG, LineUseG>>, TRUE)

\* G(2 <line break> ): an invocation whose arguments span two lines.
InputMultiLineCall ==
    LineDefG \o <<NL>>
        \o <<Tok("Identifier", "G", 0), Tok("LParen", "(", 0), Tok("Int", "2", 0), NL,
             Tok("RParen", ")", 0), NL>>

\* #define A 1 and its use A;
InputObjectLike == Concat(<<LineDefA, LineUseA>>, TRUE)

\* #if 0 / #elseif + / x / #endif: an #elseif whose condition cannot be evaluated.
LineElseifBad == <<Tok("MElseif", "#elseif", 0), Tok("Other", "+", 1)>>
InputElseifBad == Concat(<<LineIf0, LineElseifBad, LineX, LineEndif>>, TRUE)

\* #if 1 / #elseif UNDEF / x / #elseif + / #endif: two #elseif after the arm
\* that was taken, with conditions that would raise a diagnostic if evaluated.
LineElseifUndef == <<Tok("MElseif", "#elseif", 0), Tok("Identifier", "UNDEF", 1)>>
InputElseifAfterActive ==
    Concat(<<LineIf1, LineElseifUndef, LineX, LineElseifBad, LineEndif>>, TRUE)

\* A conditional with all its arms, nested in a disabled region.
InputNestedCond ==
    Concat(<<LineIf0, LineIf1, LineX, LineElseif1, LineX, LineElse, LineX, LineEndif,
             LineX, LineEndif, LineX>>, TRUE)

\* The bodies %%%0 (a run of three) and %%0 (a run of two).
BodyRun3 == <<Tok("Percent", "%", 1), Tok("Percent", "%", 0), Tok("Percent", "%", 0),
              Tok("Int", "0", 0)>>
BodyRun2 == <<Tok("Percent", "%", 1), Tok("Percent", "%", 0), Tok("Int", "0", 0)>>
\* "#define <name>(%0)", to be followed by a body.
DefOneFormal(name) ==
    <<Tok("MDefine", "#define", 0), Tok("Identifier", name, 1), Tok("LParen", "(", 0),
      Tok("Percent", "%", 0), Tok("Int", "0", 0), Tok("RParen", ")", 0)>>
\* "<name>(2);"
UseWithTwo(name) ==
    <<Tok("Identifier", name, 0), Tok("LParen", "(", 0), Tok("Int", "2", 0),
      Tok("RParen", ")", 0), Tok("Other", ";", 0)>>
\* #define T(%0) %%%0 / #define E(%0) %%0 / T(2); / E(2);
InputPercentRuns ==
    Concat(<<DefOneFormal("T") \o BodyRun3, DefOneFormal("E") \o BodyRun2,
             UseWithTwo("T"), UseWithTwo("E")>>, TRUE)

\* #define H(%1) %0 / H(2); : the body names the formal %0, which the
\* parameter list does not declare.
LineDefH ==
    <<Tok("MDefine", "#define", 0), Tok("Identifier", "H", 1), Tok("LParen", "(", 0),
      Tok("Percent", "%", 0), Tok("Int", "1", 0), Tok("RParen", ")", 0),
      Tok("Percent", "%", 1), Tok("Int", "0", 0)>>
InputUndeclaredFormal == Concat(<<LineDefH, UseWithTwo("H")>>, TRUE)

\* #define J(%0) %2 / J(2); and #define L(%0) %10 / L(2);
InputBodyFormalTwo ==
    Concat(<<DefOneFormal("J") \o <<Tok("Percent", "%", 1), Tok("Int", "2", 0)>>,
             UseWithTwo("J")>>, TRUE)
InputBodyFormalTen ==
    Concat(<<DefOneFormal("L") \o <<Tok("Percent", "%", 1), Tok("Int", "10", 0)>>,
             UseWithTwo("L")>>, TRUE)

\* #define G(%0) %0 / G(y); : the argument is an identifier that is no macro.
InputArgUndefined ==
    Concat(<<LineDefG,
             <<Tok("Identifier", "G", 0), Tok("LParen", "(", 0), Tok("Identifier", "y", 0),
               Tok("RParen", ")", 0), Tok("Other", ";", 0)>>>>, TRUE)

\* #define C 1 \ <line break> 2 // c <line break> C; <line break>
\* G(2 // c <line break> ); : a body with a line continuation and a line
\* comment, and an argument with a line comment and a line break.
InputContinuedBody ==
    <<Tok("MDefine", "#define", 0), Tok("Identifier", "C", 1), Tok("Int", "1", 1),
      Tok("LineContinuation", "\\", 1), Tok("Int", "2", 0),
      Tok("LineComment", "// c", 1), NL,
      Tok("Identifier", "C", 0), Tok("Other", ";", 0), NL>>
        \o LineDefG \o <<NL>>
        \o <<Tok("Identifier", "G", 0), Tok("LParen", "(", 0), Tok("Int", "2", 0),
             Tok("LineComment", "// c", 1), NL, Tok("RParen", ")", 0),
             Tok("Other", ";", 0), NL>>

\* The body ((%0)+(%1)) of scenario S2.
BodyAdd ==
    <<Tok("LParen", "(", 1), Tok("LParen", "(", 0), Tok("Percent", "%", 0),
      Tok("Int", "0", 0), Tok("RParen", ")", 0), Tok("Other", "+", 0),
      Tok("LParen", "(", 0), Tok("Percent", "%", 0), Tok("Int", "1", 0),
      Tok("RParen", ")", 0), Tok("RParen", ")", 0)>>
\* #define ADD(%0,%1) ((%0)+(%1))
LineDefAdd ==
    <<Tok("MDefine", "#define", 0), Tok("Identifier", "ADD", 1), Tok("LParen", "(", 0),
      Tok("Percent", "%", 0), Tok("Int", "0", 0), Tok("Comma", ",", 0),
      Tok("Percent", "%", 0), Tok("Int", "1", 0), Tok("RParen", ")", 0)>> \o BodyAdd
\* int y = ADD(1, 2);
LineUseAdd ==
    <<Tok("Identifier", "int", 0), Tok("Identifier", "y", 1), Tok("Other", "=", 1),
      Tok("Identifier", "ADD", 1), Tok("LParen", "(", 0), Tok("Int", "1", 0),
      Tok("Comma", ",", 0), Tok("Int", "2", 1), Tok("RParen", ")", 0),
      Tok("Other", ";", 0)>>
InputAdd == Concat(<<LineDefAdd, LineUseAdd>>, TRUE)

\* The body %2 - %0 of a macro of three formals.
BodySub == <<Tok("Percent", "%", 1), Tok("Int", "2", 0), Tok("Other", "-", 1),
             Tok("Percent", "%", 1), Tok("Int", "0", 0)>>
\* #define SUB(%0,%1,%2) %2 - %0
LineDefSub ==
    <<Tok("MDefine", "#define", 0), Tok("Identifier", "SUB", 1), Tok("LParen", "(", 0),
      Tok("Percent", "%", 0), Tok("Int", "0", 0), Tok("Comma", ",", 0),
      Tok("Percent", "%", 0), Tok("Int", "1", 0), Tok("Comma", ",", 0),
      Tok("Percent", "%", 0), Tok("Int", "2", 0), Tok("RParen", ")", 0)>> \o BodySub
\* SUB(1,2,3);
LineUseSub ==
    <<Tok("Identifier", "SUB", 0), Tok("LParen", "(", 0), Tok("Int", "1", 0),
      Tok("Comma", ",", 0), Tok("Int", "2", 0), Tok("Comma", ",", 0), Tok("Int", "3", 0),
      Tok("RParen", ")", 0), Tok("Other", ";", 0)>>
InputSub == Concat(<<LineDefSub, LineUseSub>>, TRUE)

\* G((2)); under #define G(%0) %0: an argument in parentheses of its own.
LineUseGParen ==
    <<Tok("Identifier", "G", 0), Tok("LParen", "(", 0), Tok("LParen", "(", 0),
      Tok("Int", "2", 0), Tok("RParen", ")", 0), Tok("RParen", ")", 0),
      Tok("Other", ";", 0)>>
InputParenArg == Concat(<<LineDefG, LineUseGParen>>, TRUE)

\* G(1,1,1,1,1,1,1,1,1,1,2); under #define G(%0) %0: eleven arguments.
RECURSIVE OnesAndCommas(_)
OnesAndCommas(n) ==
    IF n = 0 THEN <<>>
    ELSE <<Tok("Int", "1", 0), Tok("Comma", ",", 0)>> \o OnesAndCommas(n - 1)

LineUseGEleven ==
    <<Tok("Identifier", "G", 0), Tok("LParen", "(", 0)>> \o OnesAndCommas(10)
    \o <<Tok("Int", "2", 0), Tok("RParen", ")", 0), Tok("Other", ";", 0)>>
InputElevenArgs == Concat(<<LineDefG, LineUseGEleven>>, TRUE)

\* G ; / x under #define G(%0) %0: the name is not followed by "(".
InputNoParen ==
    Concat(<<LineDefG, <<Tok("Identifier", "G", 0), Tok("Other", ";", 1)>>, LineX>>, TRUE)

\* G)(2); / x under #define G(%0) %0: the name is followed by ")".
InputCloseFirst ==
    Concat(<<LineDefG,
             <<Tok("Identifier", "G", 0), Tok("RParen", ")", 0), Tok("LParen", "(", 0),
               Tok("Int", "2", 0), Tok("RParen", ")", 0), Tok("Other", ";", 0)>>,
             LineX>>, TRUE)

\* G(((2))); under #define G(%0) %0: three levels of parentheses.
InputTripleParen ==
    Concat(<<LineDefG,
             <<Tok("Identifier", "G", 0), Tok("LParen", "(", 0), Tok("LParen", "(", 0),
               Tok("LParen", "(", 0), Tok("Int", "2", 0), Tok("RParen", ")", 0),
               Tok("RParen", ")", 0), Tok("RParen", ")", 0), Tok("Other", ";", 0)>>>>, TRUE)

\* A macro whose body holds a macro between two other tokens, used between two tokens.
InputNested == Concat(<<LineDefN, LineDefW, LineUseW, LineUseW>>, TRUE)

CoverInputs ==
    {InputDisabledDefine, InputTwoRegions, InputParseIntLate, InputDirectives,
     InputMultiLineCall, InputObjectLike, InputNested, InputAdd, InputSub,
     InputParenArg, InputElseifBad, InputElseifAfterActive,
     InputNestedCond, InputPercentRuns, InputUndeclaredFormal, InputBodyFormalTwo,
     InputBodyFormalTen, InputArgUndefined, InputContinuedBody, InputElevenArgs,
     InputNoParen, InputCloseFirst, InputTripleParen}

\* The macro "#define NAME <text>" of an included document.
DocMacro(text) ==
    Macro(NoArgs, <<[kind |-> "Int", text |-> text, dcol |-> 1, line |-> 0, col |-> 10,
                     eline |-> 0, ecol |-> 11, d |-> 0]>>)

\* The documents the include resolver knows: a.inc defines M as 1 and K as 7,
\* b.inc defines M as 2.
StoreInit ==
    [documents |->
        [p \in {"a", "b"} |->
            IF p = "a" THEN [n \in {"M", "K"} |-> DocMacro(IF n = "M" THEN "1" ELSE "7")]
            ELSE [n \in {"M"} |-> DocMacro("2")]],
     calls |-> <<>>]

InitWith(inputs) ==
    /\ input \in inputs
    /\ allow_undefined_in_main \in BOOLEAN
    /\ LET s == new(input, StoreInit)
       IN /\ lexer = s.lexer
          /\ macros = s.macros
          /\ expansion_stack = s.expansion_stack
          /\ skip_line_start_col = s.skip_line_start_col
          /\ skipped_lines = s.skipped_lines
          /\ macro_not_found_errors = s.macro_not_found_errors
          /\ evaluation_errors = s.evaluation_errors
          /\ evaluated_define_symbols = s.evaluated_define_symbols
          /\ current_line = s.current_line
          /\ prev_end = s.prev_end
          /\ conditions_stack = s.conditions_stack
          /\ out = s.out
          /\ store = s.store
    /\ status = "running"
    /\ result = NoResult
    /\ err = ""
    /\ arms = <<>>
    /\ tick = FALSE

Init ==
    InitWith(Programs(CondLines, MaxLines) \cup Programs(MacroLines, MaxLines)
             \cup Programs(PlainLines, MaxLines) \cup Programs(IncludeLines, MaxLines)
             \cup Programs(RedefineLines, MaxLines)
             \cup CoverInputs)

Spec == Init /\ [][Next]_vars

----------------------------------------------------------------------------
(* The properties.                                                         *)

\* The top of a non-empty condition stack is not Active: the symbols read now
\* belong to a disabled region.
Disabled ==
    conditions_stack # <<>> /\ conditions_stack[Len(conditions_stack)] # "Active"

RECURSIVE LineBreaks(_)
\* The line breaks of a token stream: one per Newline or LineContinuation token
\* and those inside the tokens that span lines.
LineBreaks(toks) ==
    IF toks = <<>> THEN 0
    ELSE (IF toks[1].kind \in {"Newline", "LineContinuation"} THEN 1 ELSE toks[1].nl)
         + LineBreaks(Tail(toks))

NewlinesIn(text) == Cardinality({i \in DOMAIN text : text[i] = "\n"})

SingleLineTokens(toks) ==
    \A i \in DOMAIN toks : toks[i].kind \notin {"LineContinuation"} /\ toks[i].nl = 0

\* C1: whenever preprocess_input returns successfully, the output text has
\* exactly as many newline characters as the input (directives, disabled
\* regions and includes all leave one output line per input line).
C1_LineParity ==
    (status = "ok" /\ SingleLineTokens(input))
        => NewlinesIn(result.text) = LineBreaks(input)

\* C2: within one #if ... #endif chain at most one arm is entered with the
\* top of the condition stack Active, so at most one arm emits its symbols,
\* whatever #else and #elseif directives follow the arm that was taken.
C2_OneArmPerChain == \A i \in DOMAIN arms : arms[i] <= 1

\* #if 0 / #else / #elseif 1: the #else arm was taken and the true #elseif
\* after it is suppressed.
C2_Witness ==
    /\ input = Concat(<<LineIf0, LineElse, LineElseif1>>, TRUE)
    /\ status = "ok"
    /\ arms = <<1>>
    /\ conditions_stack = <<"Activated">>

\* C3: a symbol read while the top of the condition stack is Activated or
\* NotActivated adds no text to the output (the lines pushed are the pending
\* line or empty ones), leaves the macro table unchanged and makes no call to
\* the include resolver.
C3_SkippedSymbolInert ==
    [][(status = "running" /\ Disabled) =>
          /\ macros' = macros
          /\ store' = store
          /\ current_line' \in {current_line, <<>>}
          /\ Len(out') >= Len(out)
          /\ \A i \in DOMAIN out' :
                out'[i] = IF i <= Len(out) THEN out[i]
                          ELSE IF i = Len(out) + 1 /\ current_line' = <<>>
                                  /\ out'[i] = current_line
                          THEN current_line
                          ELSE <<>>]_vars

\* A #define and an #include between #if 0 and #endif were read to the end:
\* no macro is defined, the resolver was never called, and the A after the
\* #endif was emitted as it stands.
C3_Witness ==
    /\ input = InputDisabledDefine
    /\ status = "ok"
    /\ macros = <<>>
    /\ store.calls = <<>>
    /\ \E i \in DOMAIN out : out[i] = <<"A", ";">>

\* C4: when preprocess_input returns successfully the condition stack is
\* empty: an input whose #if blocks are not closed does not yield success.
C4_BalancedAtReturn == status = "ok" => conditions_stack = <<>>

\* C5: an #else, #endif or #elseif read while the condition stack is empty
\* makes preprocess_input return the structural error of that directive; the
\* stack stays empty and no text is returned.
C5_NoIfBefore ==
    [][(status = "running" /\ conditions_stack = <<>>
        /\ CurrentSymbol.kind \in {"MElse", "MEndif", "MElseif"}) =>
          /\ status' = "error"
          /\ err' = (CASE CurrentSymbol.kind = "MElse" -> "Expect if before else clause."
                       [] CurrentSymbol.kind = "MEndif" -> "Expect if before endif clause"
                       [] OTHER -> "Expect if before elseif clause.")
          /\ conditions_stack' = <<>>
          /\ result' = NoResult]_vars

\* An #elseif met after a chain was closed.
C5_Witness ==
    /\ status = "error"
    /\ err = "Expect if before elseif clause."
    /\ conditions_stack = <<>>
    /\ Len(out) >= 2

\* The diagnostic d reports the skipped range r.
Reports(d, r) ==
    /\ d.severity = "HINT"
    /\ d.range.sl <= r.sl
    /\ r.el <= d.range.el

\* C6: after a ParseInt or Structural error preprocess_input has returned an
\* error with no output text, and every diagnostic recorded before the
\* failure (skipped ranges, macro-not-found errors, evaluation errors) is
\* among those add_diagnostics returns.
C6_AbortKeepsDiagnostics ==
    (status = "error" /\ err \in StructuralErrors \cup {ParseIntError}) =>
        /\ result = NoResult
        /\ \A i \in DOMAIN skipped_lines :
              \E j \in DOMAIN add_diagnostics(State) :
                  Reports(add_diagnostics(State)[j], skipped_lines[i])
        /\ \A i \in DOMAIN macro_not_found_errors :
              \E j \in DOMAIN add_diagnostics(State) :
                  /\ add_diagnostics(State)[j].range = macro_not_found_errors[i].range
                  /\ add_diagnostics(State)[j].severity = "ERROR"
        /\ \A i \in DOMAIN evaluation_errors :
              \E j \in DOMAIN add_diagnostics(State) :
                  /\ add_diagnostics(State)[j].range = evaluation_errors[i].range
                  /\ add_diagnostics(State)[j].severity = "ERROR"

\* C7 as stated: neither a MacroNotFound nor an Evaluation error aborts
\* preprocessing, so the only errors preprocess_input returns are ParseInt
\* and Structural ones.
C7_NeverAborts == status = "error" => err \in StructuralErrors \cup {ParseIntError}

\* C7, amended: an Evaluation error, and a MacroNotFound met while an #if or
\* #elseif condition is evaluated, is recorded and the condition counts as
\* false, the main loop going on; a MacroNotFound raised while a macro is
\* expanded in active code is recorded and preprocess_input returns an error.
C7_Amended ==
    [][/\ (evaluation_errors' # evaluation_errors =>
              /\ status' = "running"
              /\ Len(evaluation_errors') = Len(evaluation_errors) + 1
              /\ conditions_stack' # <<>>
              /\ conditions_stack'[Len(conditions_stack')] = "NotActivated")
       /\ (macro_not_found_errors' # macro_not_found_errors =>
              /\ Len(macro_not_found_errors') = Len(macro_not_found_errors) + 1
              /\ \/ /\ CurrentSymbol.kind \in {"MIf", "MElseif"}
                    /\ status' = "running"
                    /\ conditions_stack' # <<>>
                    /\ conditions_stack'[Len(conditions_stack')] = "NotActivated"
                 \/ /\ CurrentSymbol.kind = "Identifier"
                    /\ CurrentSymbol.text \in DOMAIN macros
                    /\ ~Disabled
                    /\ status' = "error"
                    /\ err' = MacroNotFound
                    /\ result' = NoResult)
       /\ (status' = "error" /\ err' = MacroNotFound =>
              macro_not_found_errors' # macro_not_found_errors)]_vars

\* A condition that failed to evaluate and one that named an unknown macro
\* were both recorded, and the input was read to its end.
C7_Witness ==
    /\ status = "ok"
    /\ evaluation_errors # <<>>
    /\ macro_not_found_errors # <<>>

\* An identifier of active code that is no macro is the current symbol.
PlainIdentifier ==
    /\ status = "running"
    /\ ~Disabled
    /\ CurrentSymbol.kind = "Identifier"
    /\ CurrentSymbol.text \notin DOMAIN macros

\* C8 as stated: an identifier in active code that is not in the macro table
\* produces a MacroNotFound diagnostic naming it.
C8_ReportsMissingMacro ==
    [][PlainIdentifier =>
          /\ Len(macro_not_found_errors') = Len(macro_not_found_errors) + 1
          /\ macro_not_found_errors'[Len(macro_not_found_errors')].macro_name
                = CurrentSymbol.text]_vars

\* C8, amended: an identifier in active code that is not in the macro table
\* is emitted as it stands, after its leading whitespace, and produces no
\* diagnostic.
C8_Amended ==
    [][PlainIdentifier =>
          /\ macro_not_found_errors' = macro_not_found_errors
          /\ status' = "running"
          /\ current_line' =
                current_line \o Repeat(" ", Abs(CurrentSymbol.dcol))
                    \o <<CurrentSymbol.text>>]_vars

\* The x of "#if 1 / x" was emitted and nothing was reported.
C8_Witness ==
    /\ conditions_stack = <<"Active">>
    /\ current_line = <<"x">>
    /\ macro_not_found_errors = <<>>

\* C9: every symbol expand_symbol pushes onto the expansion stack comes from
\* a work-stack entry of depth below 5, whatever the macro table holds
\* (self-referential and mutually referential macros included): an entry
\* that reaches depth 5 is dropped.
C9_DepthBound == \A i \in DOMAIN expansion_stack : expansion_stack[i].d < 5

\* The use of R under "#define R 1 R": the 1 of the depths 1 to 4 are on the
\* expansion stack and nothing of depth 5 is.
C9_Witness ==
    /\ "R" \in DOMAIN macros
    /\ Len(expansion_stack) = 4
    /\ \A i \in DOMAIN expansion_stack : expansion_stack[i].text = "1"
    /\ \E i \in DOMAIN expansion_stack : expansion_stack[i].d = 4

NoSpaces(text) == SelectSeq(text, LAMBDA piece : piece # " ")

TextsOf(toks) == [i \in DOMAIN toks |-> toks[i].text]

DirectiveFree(toks) == \A i \in DOMAIN toks : toks[i].kind \notin DirectiveKinds

\* C10: for an input without directives (and hence without a macro), the
\* output is, whitespace aside, the token sequence of the input, line breaks
\* included.
C10_MacroFreeIdentity ==
    (status = "ok" /\ DirectiveFree(input)) => NoSpaces(result.text) = TextsOf(input)

\* int z = x; / "s" 7 was read to its end.
C10_Witness ==
    /\ status = "ok"
    /\ input = Concat(<<LineDecl, LineLiterals>>, TRUE)
    /\ Len(result.text) > Len(input)

RECURSIVE SplitLines(_, _)
\* The lines of a token stream: the tokens between its Newline tokens (the
\* inverse of Concat; cur is the line being read).
SplitLines(toks, cur) ==
    IF toks = <<>> THEN <<cur>>
    ELSE IF toks[1].kind = "Newline" THEN <<cur>> \o SplitLines(Tail(toks), <<>>)
    ELSE SplitLines(Tail(toks), Append(cur, toks[1]))

InputLines == SplitLines(input, <<>>)

\* A macro table reduced to the argument binding and the texts of the body
\* tokens other than the symbol that ends the line.
TextTable(m) ==
    [n \in DOMAIN m |->
        [args |-> m[n].args, body |-> TextsOf(Significant(m[n].body))]]

\* m with the entries of `more`, those of `more` winning.
Merge(m, more) ==
    [n \in DOMAIN m \cup DOMAIN more |-> IF n \in DOMAIN more THEN more[n] ELSE m[n]]

\* What a line of IncludeLines brings into the macro table.
LineTable(line) ==
    IF line = LineInclude THEN TextTable(StoreInit.documents["a"])
    ELSE IF line = LineIncludeB THEN TextTable(StoreInit.documents["b"])
    ELSE IF line = LineDefM THEN [n \in {"M"} |-> [args |-> NoArgs, body |-> <<"3">>]]
    ELSE <<>>

RECURSIVE InOrder(_, _)
\* The table after the directives of `lines`, applied in textual order.
InOrder(lines, table) ==
    IF lines = <<>> THEN table
    ELSE InOrder(Tail(lines), Merge(table, LineTable(lines[1])))

\* The lines of `lines` that are #define lines.
LocalLines(lines) == SelectSeq(lines, LAMBDA l : l = LineDefM)

IncludeProgram == \A i \in DOMAIN InputLines : InputLines[i] \in IncludeLines \cup {<<>>}

\* The input holds #include <a> once, #include <b> once, and a before b.
IncludesAThenB ==
    /\ IncludeProgram
    /\ \E i, j \in DOMAIN InputLines :
          /\ i < j
          /\ InputLines[i] = LineInclude
          /\ InputLines[j] = LineIncludeB
          /\ \A k \in DOMAIN InputLines :
                (InputLines[k] = LineInclude => k = i)
                    /\ (InputLines[k] = LineIncludeB => k = j)

\* C11 as stated: after #include a then #include b the final macro table is
\* merge(local, a_macros, b_macros), the later operand winning: b over a, and
\* the included entries over the local #define entries.
C11_IncludedOverLocal ==
    (status = "ok" /\ IncludesAThenB) =>
        TextTable(macros) =
            Merge(Merge(InOrder(LocalLines(InputLines), <<>>),
                        TextTable(StoreInit.documents["a"])),
                  TextTable(StoreInit.documents["b"]))

\* C11, amended: the final macro table is the one obtained by applying the
\* active #define and #include directives in textual order, the later
\* directive winning on a name collision: b over a, an included entry over an
\* earlier local #define, and a later local #define over an included entry.
C11_TextualOrder ==
    (status = "ok" /\ IncludeProgram) => TextTable(macros) = InOrder(InputLines, <<>>)

\* #include <a>, #include <b>, #define M 3 was read to its end: K comes from
\* a, and M is the local 3, not the 2 of b.
C11_Witness ==
    /\ status = "ok"
    /\ input = Concat(<<LineInclude, LineIncludeB, LineDefM>>, TRUE)
    /\ DOMAIN macros = {"M", "K"}
    /\ TextTable(macros)["M"].body = <<"3">>

\* The table the directives of the lines before line i have built.
TableBefore(i) == InOrder(SubSeq(InputLines, 1, i - 1), <<>>)

\* C12: a macro is visible from its textual definition point on: a use of M
\* in active code is emitted as it stands when no #define or #include before
\* it brings M in, and is replaced by the body of the latest such directive
\* before it otherwise.
C12_VisibleFromDefinition ==
    (status = "ok" /\ IncludeProgram) =>
        \A i \in DOMAIN InputLines :
            InputLines[i] = LineUseM =>
                /\ i \in DOMAIN out
                /\ out[i] = IF "M" \in DOMAIN TableBefore(i)
                            THEN TableBefore(i)["M"].body
                            ELSE <<"M">>

\* M / #include <b> / M: the first M stands as it was, the second is the 2 of b.
C12_Witness ==
    /\ status = "ok"
    /\ input = Concat(<<LineUseM, LineIncludeB, LineUseM>>, TRUE)
    /\ out[1] = <<"M">>
    /\ out[3] = <<"2">>

\* What a #define line of RedefineLines binds M to: the argument binding and
\* the texts of the body tokens.
DefineEntry(line) ==
    IF line = LineDefM THEN [args |-> NoArgs, body |-> <<"3">>]
    ELSE IF line = LineDefMFn THEN [args |-> <<0, 10>>, body |-> <<"%", "0">>]
    ELSE [args |-> NoArgs, body |-> <<"4", "4">>]

\* The lines of the input that hold a token.
FilledLines == SelectSeq(InputLines, LAMBDA l : l # <<>>)

RedefineProgram ==
    /\ FilledLines # <<>>
    /\ \A i \in DOMAIN FilledLines : FilledLines[i] \in RedefineLines

\* C13: the macro table holds one entry per name, and after several active
\* #define directives of one name the entry (argument binding and body) is
\* that of the last of them.
C13_LaterDefineWins ==
    (status = "ok" /\ RedefineProgram) =>
        /\ DOMAIN macros = {"M"}
        /\ TextTable(macros)["M"] = DefineEntry(FilledLines[Len(FilledLines)])

\* #define M 3 then #define M(%0) %0: M is function-like with body %0.
C13_Witness ==
    /\ status = "ok"
    /\ input = Concat(<<LineDefM, LineDefMFn>>, TRUE)
    /\ macros["M"].args = <<0, 10>>
    /\ TextTable(macros)["M"].body = <<"%", "0">>

\* The ranges of the diagnostics get_disabled_diagnostics produces now.
DisabledRanges ==
    [i \in DOMAIN get_disabled_diagnostics(State) |->
        get_disabled_diagnostics(State)[i].range]

\* skipped_lines[i..j] is a run of ranges on consecutive lines (each starts on
\* the line the one before ends on, or on the next) that no neighbour extends.
ConsecutiveRun(i, j) ==
    /\ i <= j
    /\ \A k \in i..(j - 1) : skipped_lines[k + 1].sl <= skipped_lines[k].el + 1
    /\ i > 1 => skipped_lines[i].sl > skipped_lines[i - 1].el + 1
    /\ j < Len(skipped_lines) => skipped_lines[j + 1].sl > skipped_lines[j].el + 1

\* C14: the skipped ranges recorded for consecutive lines are reported as one
\* diagnostic that starts where the first of them starts and ends where the
\* last of them ends, and no two diagnostics cover adjacent lines.
C14_Coalescing ==
    /\ \A i, j \in DOMAIN skipped_lines :
          ConsecutiveRun(i, j) =>
              \E d \in DOMAIN DisabledRanges :
                  /\ DisabledRanges[d].sl = skipped_lines[i].sl
                  /\ DisabledRanges[d].sc = skipped_lines[i].sc
                  /\ DisabledRanges[d].el = skipped_lines[j].el
                  /\ DisabledRanges[d].ec = skipped_lines[j].ec
    /\ \A d, e \in DOMAIN DisabledRanges :
          d # e => DisabledRanges[d].el + 1 # DisabledRanges[e].sl

\* The position (l1, c1) is not after (l2, c2).
NotAfter(l1, c1, l2, c2) == l1 < l2 \/ (l1 = l2 /\ c1 <= c2)

\* The range r lies inside the range d.
Inside(r, d) ==
    /\ NotAfter(d.sl, d.sc, r.sl, r.sc)
    /\ NotAfter(r.el, r.ec, d.el, d.ec)

\* C15: each skipped range recorded lies inside one of the diagnostics that
\* get_disabled_diagnostics produces, however many separate disabled regions
\* the document has.
C15_EveryRangeCovered ==
    \A i \in DOMAIN skipped_lines :
        \E d \in DOMAIN DisabledRanges : Inside(skipped_lines[i], DisabledRanges[d])

RECURSIVE RefExpand(_, _, _)
\* The texts that stand for the tokens `texts` met at depth d under `table`
\* (name |-> body texts): a macro name stands for its body one level deeper,
\* nothing stands for a token of depth 5, any other token stands for itself.
RefExpand(table, texts, d) ==
    IF texts = <<>> THEN <<>>
    ELSE (IF d = 5 THEN <<>>
          ELSE IF texts[1] \in DOMAIN table
          THEN RefExpand(table, table[texts[1]], d + 1)
          ELSE <<texts[1]>>)
         \o RefExpand(table, Tail(texts), d)

RECURSIVE RefRun(_, _)
\* The output lines expected for `lines`, read in order with the table built
\* so far: a #define line stands as it is and binds its name to the tokens
\* after it, any other line is expanded token by token, left to right.
RefRun(lines, table) ==
    IF lines = <<>> THEN <<>>
    ELSE IF lines[1] # <<>> /\ lines[1][1].kind = "MDefine"
    THEN <<TextsOf(lines[1])>>
         \o RefRun(Tail(lines),
                   Merge(table, [n \in {lines[1][2].text} |->
                                   TextsOf(SubSeq(lines[1], 3, Len(lines[1])))]))
    ELSE <<RefExpand(table, TextsOf(lines[1]), 0)>> \o RefRun(Tail(lines), table)

ObjectLikeLines == MacroLines \cup {LineDefN, LineDefW, LineUseW, LineDefA, LineUseA}

ObjectLikeProgram ==
    \A i \in DOMAIN InputLines : InputLines[i] \in ObjectLikeLines \cup {<<>>}

\* The current symbol is a name that expand_symbol is called for.
MacroInvocation ==
    CurrentSymbol.kind = "Identifier" /\ CurrentSymbol.text \in DOMAIN macros

RECURSIVE RefSubst(_, _)
\* The body texts with every "%" "N" pair replaced by the texts of actual N.
RefSubst(texts, actuals) ==
    IF texts = <<>> THEN <<>>
    ELSE IF Len(texts) >= 2 /\ texts[1] = "%" /\ to_int(texts[2]) >= 0
    THEN actuals[to_int(texts[2]) + 1] \o RefSubst(SubSeq(texts, 3, Len(texts)), actuals)
    ELSE <<texts[1]>> \o RefSubst(Tail(texts), actuals)

\* Invocations of macros defined as NAME(%0,...,%k) with k+1 arguments: the
\* input, and the second output line that substitution asks for.
SubstitutionCases ==
    {[in |-> InputAdd,
      expect |-> <<"int", "y", "=">>
                   \o RefSubst(TextsOf(BodyAdd), <<<<"1">>, <<"2">>>>) \o <<";">>],
     [in |-> InputSub,
      expect |-> RefSubst(TextsOf(BodySub), <<<<"1">>, <<"2">>, <<"3">>>>) \o <<";">>]}

\* C17: a macro defined as NAME(%0,...,%k) and invoked with k+1 arguments
\* expands to its body with every %N replaced by the tokens of actual
\* argument N, the other body tokens kept in order.
C17_Substitution ==
    \A c \in SubstitutionCases :
        (input = c.in /\ status # "running") =>
            /\ status = "ok"
            /\ NoSpaces(out[2]) = c.expect

RECURSIVE Render(_)
\* The text pieces of a line: each token after its delta.col columns of space.
Render(line) ==
    IF line = <<>> THEN <<>>
    ELSE Repeat(" ", line[1].dcol) \o <<line[1].text>> \o Render(Tail(line))

IsDefineLine(l) == l # <<>> /\ l[1].kind = "MDefine"

\* The body tokens of the last "#define n ..." line of the input.
LastBodyOf(n) ==
    LET defs == SelectSeq(InputLines, LAMBDA l : IsDefineLine(l) /\ l[2].text = n)
    IN TextsOf(SubSeq(defs[Len(defs)], 3, Len(defs[Len(defs)])))

\* The bodies, as texts, that the #define lines before line i bind.
BodiesBefore(i) ==
    LET defs == SelectSeq(SubSeq(InputLines, 1, i - 1), IsDefineLine)
    IN [n \in {defs[k][2].text : k \in DOMAIN defs} |->
          LET mine == SelectSeq(defs, LAMBDA l : l[2].text = n)
          IN TextsOf(SubSeq(mine[Len(mine)], 3, Len(mine[Len(mine)])))]

\* Every #define line stands in the output as it was written, on the line it
\* had in the input.
DefinesMirrored ==
    \A i \in DOMAIN InputLines :
        IsDefineLine(InputLines[i]) => i \in DOMAIN out /\ out[i] = Render(InputLines[i])

\* Every other line holds its tokens with the macro names of the #define lines
\* before it replaced by their bodies.
UsesReplaced ==
    \A i \in DOMAIN InputLines :
        ~IsDefineLine(InputLines[i]) =>
            /\ i \in DOMAIN out
            /\ NoSpaces(out[i]) = RefExpand(BodiesBefore(i), TextsOf(InputLines[i]), 0)

AtActive(k) == status = "running" /\ ~Skipping /\ CurrentSymbol.kind = k

\* What the evaluator makes of the rest of the line of the current directive.
ConditionNow ==
    IfConditionEvaluate(macros, CurrentSymbol.line,
                        ReadDirectiveLine(Taken.lexer, <<>>).symbols)

ConditionHolds == ~ConditionNow.error /\ ConditionNow.value

\* C19: an #if processed in active mode pushes exactly one state: Active when
\* its condition evaluates to true, otherwise NotActivated with
\* skip_line_start_col set to the end column of the directive.
C19_IfPushesOne ==
    [][AtActive("MIf") =>
          /\ conditions_stack' =
                Append(conditions_stack,
                       IF ConditionHolds THEN "Active" ELSE "NotActivated")
          /\ ~ConditionHolds => skip_line_start_col' = CurrentSymbol.ecol]_vars

\* #if 1 then #if 0 were processed: Active below NotActivated, and the column
\* recorded is the end of "#if".
C19_Witness ==
    /\ status = "running"
    /\ Len(InputLines) >= 2
    /\ InputLines[1] = LineIf1
    /\ InputLines[2] = LineIf0
    /\ conditions_stack = <<"Active", "NotActivated">>
    /\ skip_line_start_col = 3
    /\ skipped_lines = <<>>

\* The main loop is about to evaluate the condition of an #if or #elseif:
\* an #if of active code, or an #elseif over a NotActivated state.
AtEvaluation ==
    \/ AtActive("MIf")
    \/ /\ status = "running"
       /\ CurrentSymbol.kind = "MElseif"
       /\ conditions_stack # <<>>
       /\ Last(conditions_stack) = "NotActivated"

\* The condition stack below the state the directive at hand replaces or adds.
StackBelow ==
    IF CurrentSymbol.kind = "MIf" THEN conditions_stack ELSE Front(conditions_stack)

\* C20: when the evaluation of an #if or #elseif condition fails, exactly one
\* EvaluationError is recorded, NotActivated is pushed as for a false
\* condition, and the main loop goes on with the symbol after the directive
\* line.
C20_FailedEvaluation ==
    [][(AtEvaluation /\ ConditionNow.error) =>
          /\ Len(evaluation_errors') = Len(evaluation_errors) + 1
          /\ Front(evaluation_errors') = evaluation_errors
          /\ conditions_stack' = Append(StackBelow, "NotActivated")
          /\ status' = "running"
          /\ err' = ""
          /\ lexer' = ReadDirectiveLine(Taken.lexer, <<>>).lexer]_vars

\* #if 0 / #elseif + : the #elseif failed to evaluate, one error is recorded,
\* the state is NotActivated and the x of the next line is the next symbol.
C20_Witness ==
    /\ status = "running"
    /\ input = InputElseifBad
    /\ Len(evaluation_errors) = 1
    /\ conditions_stack = <<"NotActivated">>
    /\ CurrentSymbol.kind = "Identifier"
    /\ CurrentSymbol.text = "x"

\* The main loop is about to process an #elseif over a non-empty stack.
AtElseif ==
    status = "running" /\ CurrentSymbol.kind = "MElseif" /\ conditions_stack # <<>>

\* C21: an #elseif pops one state. If it was NotActivated the condition is
\* evaluated as for an #if; if it was Active or Activated, Activated is
\* pushed, the condition is not read, and neither that step nor the skipping
\* of the rest of the line records an evaluation or macro-not-found error.
C21_ElseifEvaluatesOnlyNotActivated ==
    /\ [][AtElseif =>
            IF Last(conditions_stack) = "NotActivated"
            THEN /\ conditions_stack' =
                       Append(Front(conditions_stack),
                              IF ConditionHolds THEN "Active" ELSE "NotActivated")
                 /\ lexer' = ReadDirectiveLine(Taken.lexer, <<>>).lexer
            ELSE /\ conditions_stack' = Append(Front(conditions_stack), "Activated")
                 /\ lexer' = Taken.lexer
                 /\ evaluation_errors' = evaluation_errors
                 /\ macro_not_found_errors' = macro_not_found_errors]_vars
    /\ [][(status = "running" /\ Skipping /\ ~AtEvaluation) =>
            /\ evaluation_errors' = evaluation_errors
            /\ macro_not_found_errors' = macro_not_found_errors]_vars

\* #if 1 / #elseif UNDEF: the #elseif replaced Active by Activated, its
\* condition UNDEF is the next symbol of the main loop, and nothing is
\* recorded.
C21_Witness ==
    /\ status = "running"
    /\ input = InputElseifAfterActive
    /\ conditions_stack = <<"Activated">>
    /\ CurrentSymbol.kind = "Identifier"
    /\ CurrentSymbol.text = "UNDEF"
    /\ evaluation_errors = <<>>
    /\ macro_not_found_errors = <<>>

\* C22: an #else on a non-empty stack replaces the top state: NotActivated
\* becomes Active; Active or Activated becomes Activated, with
\* skip_line_start_col set to the end column of the directive. The depth of
\* the stack is unchanged.
C22_ElseReplacesTop ==
    [][(status = "running" /\ CurrentSymbol.kind = "MElse" /\ conditions_stack # <<>>) =>
          /\ Len(conditions_stack') = Len(conditions_stack)
          /\ Front(conditions_stack') = Front(conditions_stack)
          /\ IF Last(conditions_stack) = "NotActivated"
             THEN Last(conditions_stack') = "Active"
             ELSE /\ Last(conditions_stack') = "Activated"
                  /\ skip_line_start_col' = CurrentSymbol.ecol
          /\ status' = "running"]_vars

\* #if 0 / #else / #else: the first #else made the state Active, the second
\* made it Activated and recorded the column where "#else" ends.
C22_Witness ==
    /\ status = "running"
    /\ Len(InputLines) >= 3
    /\ InputLines[1] = LineIf0
    /\ InputLines[2] = LineElse
    /\ InputLines[3] = LineElse
    /\ conditions_stack = <<"Activated">>
    /\ skip_line_start_col = 5
    /\ arms = <<1>>

\* Every state above a state that is not Active is Activated, and the chain
\* it stands for has entered no arm.
NestedInDisabledInert ==
    \A i, j \in DOMAIN conditions_stack :
        (i < j /\ conditions_stack[i] # "Active") =>
            /\ conditions_stack[j] = "Activated"
            /\ arms[j] = 0

\* A step changes the condition stack at its top only.
TopOnly ==
    \/ conditions_stack' = conditions_stack
    \/ Front(conditions_stack') = conditions_stack
    \/ conditions_stack # <<>> /\ conditions_stack' = Front(conditions_stack)
    \/ /\ conditions_stack # <<>>
       /\ Len(conditions_stack') = Len(conditions_stack)
       /\ Front(conditions_stack') = Front(conditions_stack)

\* C23: an #if met while skipping pushes Activated without reading or
\* evaluating its condition; no state of a conditional nested in a disabled
\* region ever becomes Active, so none of its arms is emitted; and its #endif
\* pops that one state, the states below being as they were before the
\* nested #if.
C23_NestedIfInert ==
    /\ []NestedInDisabledInert
    /\ [][/\ (status = "running" /\ Skipping /\ CurrentSymbol.kind = "MIf") =>
                /\ conditions_stack' = Append(conditions_stack, "Activated")
                /\ lexer' = Taken.lexer
                /\ evaluation_errors' = evaluation_errors
                /\ macro_not_found_errors' = macro_not_found_errors
                /\ out' = out
          /\ (status = "running" /\ CurrentSymbol.kind = "MEndif"
                 /\ conditions_stack # <<>>) =>
                conditions_stack' = Front(conditions_stack)
          /\ TopOnly]_vars

\* #if 0 / #if 1 / #else: the nested #if 1 was pushed as Activated and its
\* #else left it Activated, under the NotActivated of the outer #if.
C23_Witness ==
    /\ status = "running"
    /\ Len(InputLines) >= 3
    /\ InputLines[1] = LineIf0
    /\ InputLines[2] = LineIf1
    /\ InputLines[3] = LineElse
    /\ conditions_stack = <<"NotActivated", "Activated">>
    /\ arms = <<0, 0>>
    /\ skip_line_start_col = 5

RECURSIVE RefRuns(_, _, _)
\* The body texts after the runs of "%" are resolved, `run` being the length
\* of the run that ends before texts[1]: of a run the odd-numbered "%" are
\* kept; a literal after an odd run takes the place of the last kept "%" and
\* stands for its actual argument; a literal after an even run stands as it is.
RefRuns(texts, actuals, run) ==
    LET kept == (run + 1) \div 2
    IN IF texts = <<>> THEN Repeat("%", kept)
       ELSE IF texts[1] = "%" THEN RefRuns(Tail(texts), actuals, run + 1)
       ELSE IF to_int(texts[1]) >= 0 /\ run % 2 = 1
       THEN Repeat("%", kept - 1) \o actuals[to_int(texts[1]) + 1]
                \o RefRuns(Tail(texts), actuals, 0)
       ELSE Repeat("%", kept) \o <<texts[1]>> \o RefRuns(Tail(texts), actuals, 0)

\* C24: in the body of a function-like macro the odd-numbered "%" of a run are
\* kept, a literal after a run of odd length (1, 3, 5, ...) is replaced by the
\* bound argument with the last kept "%" removed, and a literal after a run
\* of even length is emitted unchanged.
C24_PercentRuns ==
    (input = InputPercentRuns /\ status # "running") =>
        /\ status = "ok"
        /\ NoSpaces(out[3]) = RefRuns(TextsOf(BodyRun3), <<<<"2">>>>, 0) \o <<";">>
        /\ NoSpaces(out[4]) = RefRuns(TextsOf(BodyRun2), <<<<"2">>>>, 0) \o <<";">>

\* C25: during argument substitution every access to macro.args and to the
\* argument buckets uses an index in 0..9: the expansion of a macro invocation
\* never indexes out of range, it goes through or fails with an error.
C25_SubstitutionIndexInRange ==
    [][(status = "running" /\ ~Skipping /\ MacroInvocation) => status' # "panic"]_vars

\* C26: the parameter list of a function-like #define yields an args array
\* of ten slots, each holding the position of its formal or the sentinel -1.
C26_TenSlots ==
    \A n \in DOMAIN macros :
        macros[n].args # NoArgs =>
            /\ Len(macros[n].args) = 10
            /\ \A k \in DOMAIN macros[n].args : macros[n].args[k] \in (-1)..9

\* C27: a token met at paren_depth greater than 1 during argument collection
\* is appended to the current bucket as well as to the re-queue, so the
\* argument (2) of G((2)) is captured in full and G((2)); expands to (2);
C27_InnerParensCaptured ==
    input = InputParenArg =>
        /\ (status = "running" /\ MacroInvocation) =>
              TextsOf(collect_arguments(Taken.lexer, <<>>).args[1]) = <<"(", "2", ")">>
        /\ status \notin {"running"} =>
              /\ status = "ok"
              /\ NoSpaces(out[2]) = <<"(", "2", ")", ";">>

\* What expand_symbol makes of the current symbol when undefined names are
\* allowed: every identifier it meets that is no macro is pushed.
Permissive == expand_symbol(Taken.lexer, macros, CurrentSymbol, expansion_stack, TRUE)

\* The identifiers that are no macro which the expansion of the current
\* symbol meets, in the order it meets them.
UndefinedMet ==
    SelectSeq(SubSeq(Permissive.expansion_stack, Len(expansion_stack) + 1,
                     Len(Permissive.expansion_stack)),
              LAMBDA y : y.kind = "Identifier")

\* C28: when the expansion of a macro in active code meets, in a body or an
\* argument, an identifier that is no macro and undefined macros are not
\* allowed, a MacroNotFound error naming that identifier is appended to
\* macro_not_found_errors and preprocess_input returns an error.
C28_UndefinedInExpansionAborts ==
    [][(/\ status = "running" /\ ~Skipping /\ MacroInvocation
        /\ ~allow_undefined_in_main
        /\ Permissive.err = "" /\ ~Permissive.panicked
        /\ UndefinedMet # <<>>) =>
          /\ status' = "error"
          /\ err' = MacroNotFound
          /\ result' = NoResult
          /\ Len(macro_not_found_errors') = Len(macro_not_found_errors) + 1
          /\ Front(macro_not_found_errors') = macro_not_found_errors
          /\ Last(macro_not_found_errors').macro_name = UndefinedMet[1].text]_vars

\* G(y); under #define G(%0) %0: the y of the argument was met, the error
\* names it and preprocess_input returned an error.
C28_Witness ==
    /\ input = InputArgUndefined
    /\ ~allow_undefined_in_main
    /\ status = "error"
    /\ err = MacroNotFound
    /\ Len(macro_not_found_errors) = 1
    /\ macro_not_found_errors[1].macro_name = "y"

\* The identifiers among the symbols of the rest of the directive line.
ConditionIdentifiers ==
    SelectSeq(ReadDirectiveLine(Taken.lexer, <<>>).symbols,
              LAMBDA y : y.kind = "Identifier")

\* Symbol a stands before symbol b in the source.
Before(a, b) == a.line < b.line \/ (a.line = b.line /\ a.col < b.col)

\* C29: every identifier read as part of an evaluated #if or #elseif
\* condition, and every identifier met while skipping, is appended once to
\* evaluated_define_symbols, which is in source order, and is not written to
\* the output; no other step appends to the list.
C29_EvaluatedDefineSymbols ==
    /\ [](\A i, j \in DOMAIN evaluated_define_symbols :
             i < j => Before(evaluated_define_symbols[i], evaluated_define_symbols[j]))
    /\ [][status = "running" =>
            IF AtEvaluation
            THEN /\ evaluated_define_symbols' =
                       evaluated_define_symbols \o ConditionIdentifiers
                 /\ current_line' = current_line
                 /\ \A i \in DOMAIN out' : i > Len(out) => out'[i] = <<>>
            ELSE IF Skipping /\ CurrentSymbol.kind = "Identifier"
            THEN /\ evaluated_define_symbols' =
                       Append(evaluated_define_symbols, CurrentSymbol)
                 /\ current_line' = current_line
                 /\ out' = out
            ELSE evaluated_define_symbols' = evaluated_define_symbols]_vars

\* #if UNDEF / x / #endif: the UNDEF of the condition and the skipped x are
\* recorded in that order, and no line of the output holds a token.
C29_Witness ==
    /\ status = "ok"
    /\ input = Concat(<<LineIfUndef, LineX, LineEndif>>, TRUE)
    /\ TextsOf(evaluated_define_symbols) = <<"UNDEF", "x">>
    /\ \A i \in DOMAIN out : out[i] = <<>>

\* The main loop is about to process, in active code, an #include whose
\* target the resolver does not know.
AtUnresolvedInclude ==
    /\ AtActive("MInclude")
    /\ RE1_capture(CurrentSymbol.text) \notin DOMAIN store.documents
    /\ RE2_capture(CurrentSymbol.text) \notin DOMAIN store.documents

\* C30: when the resolver cannot resolve the target of an #include, the
\* macro table is unchanged, nothing is recorded for a diagnostic, no error
\* is returned, and the text of the directive is emitted on its line.
C30_UnresolvedIncludeSilent ==
    [][AtUnresolvedInclude =>
          /\ macros' = macros
          /\ macro_not_found_errors' = macro_not_found_errors
          /\ evaluation_errors' = evaluation_errors
          /\ skipped_lines' = skipped_lines
          /\ status' = "running"
          /\ err' = ""
          /\ out' = out
          /\ current_line' =
                current_line \o Repeat(" ", Abs(CurrentSymbol.dcol))
                    \o <<CurrentSymbol.text>>]_vars

\* #include <a> / #include <nofile>: the resolver was asked for nofile, the
\* table holds what a.inc brought and no more, and the directive stands on
\* the line being written.
C30_Witness ==
    /\ status = "running"
    /\ input = InputDirectives
    /\ store.calls = <<"a", "nofile">>
    /\ DOMAIN macros = {"M", "K"}
    /\ current_line = <<"#include <nofile>">>
    /\ Len(out) = 1

LineEndKinds == {"Newline", "LineContinuation", "LineComment"}

\* C31: no Newline, LineContinuation or line-comment symbol is ever on the
\* expansion stack, whether the expansion met it in a macro body or in a
\* captured argument.
C31_ExpansionSingleLine ==
    \A i \in DOMAIN expansion_stack : expansion_stack[i].kind \notin LineEndKinds

\* The C of the third line was expanded: the body of C holds a line
\* continuation, a line comment and a line break, and the expansion stack
\* holds the 2 and the 1 only.
C31_Witness ==
    /\ status = "running"
    /\ input = InputContinuedBody
    /\ "C" \in DOMAIN macros
    /\ {macros["C"].body[i].kind : i \in DOMAIN macros["C"].body}
          = {"Int", "LineContinuation", "LineComment", "Newline"}
    /\ TextsOf(expansion_stack) = <<"2", "1">>

\* No Active entry lies above a non-Active entry, and every entry above the
\* lowest non-Active entry is Activated.
ActivatedAboveNonActive ==
    \A i, j \in DOMAIN conditions_stack :
        (i < j /\ conditions_stack[i] # "Active") => conditions_stack[j] = "Activated"

\* Below a NotActivated entry every entry is Active.
ActiveBelowNotActivated ==
    \A i, k \in DOMAIN conditions_stack :
        (k < i /\ conditions_stack[i] = "NotActivated") => conditions_stack[k] = "Active"

\* C32 as stated: no Active entry lies above a non-Active entry, every entry
\* above the lowest non-Active entry is Activated, and NotActivated occurs
\* only as the top entry, with only Active entries below it.
C32_NotActivatedOnlyOnTop ==
    /\ ActivatedAboveNonActive
    /\ ActiveBelowNotActivated
    /\ \A i \in DOMAIN conditions_stack :
          conditions_stack[i] = "NotActivated" => i = Len(conditions_stack)

\* C32, amended: no Active entry lies above a non-Active entry, every entry
\* above the lowest non-Active entry is Activated, and NotActivated occurs
\* only as the lowest non-Active entry, with only Active entries below it;
\* the Activated entries of nested conditionals may lie above it.
C32_Amended ==
    /\ ActivatedAboveNonActive
    /\ ActiveBelowNotActivated
    /\ \A i \in DOMAIN conditions_stack :
          conditions_stack[i] = "NotActivated" =>
              \A j \in DOMAIN conditions_stack :
                  j > i => conditions_stack[j] = "Activated"

\* #if 1 / #if 0 / #if 1: the NotActivated of the second #if lies under the
\* Activated of the third.
C32_Witness ==
    /\ status = "running"
    /\ conditions_stack = <<"Active", "NotActivated", "Activated">>

\* The change of depth the symbol the main loop is about to process makes.
DepthChange ==
    CASE CurrentSymbol.kind = "MIf" -> 1
      [] CurrentSymbol.kind = "MEndif" /\ conditions_stack # <<>> -> -1
      [] OTHER -> 0

\* C33: in active and in skipping mode alike an #if makes the condition stack
\* one deeper, #elseif and #else leave its depth as it is, #endif makes it
\* one less deep, and a step for any other symbol leaves the stack unchanged.
C33_StackAccounting ==
    [][status = "running" =>
          /\ Len(conditions_stack') = Len(conditions_stack) + DepthChange
          /\ CurrentSymbol.kind \notin {"MIf", "MElseif", "MElse", "MEndif"} =>
                conditions_stack' = conditions_stack]_vars

\* The outer #endif of the nested input is the current symbol: the nested
\* #if, #elseif, #else and #endif were all met while skipping and left the
\* one state of the outer #if.
C33_Witness ==
    /\ status = "running"
    /\ input = InputNestedCond
    /\ conditions_stack = <<"NotActivated">>
    /\ CurrentSymbol.kind = "MEndif"
    /\ CurrentSymbol.line = 9

\* A guard of the main loop holds: the iterator is exhausted, or the symbol
\* is read in a disabled region, or it is matched by one arm of the match.
LoopGuard ==
    \/ CurrentSymbol = None
    \/ CurrentSymbol # None /\ Skipping
    \/ ~Skipping /\ CurrentSymbol.kind \in DirectiveKinds
    \/ ~Skipping /\ CurrentSymbol.kind \in {"Newline", "Identifier", "Eof"}
    \/ /\ ~Skipping
       /\ CurrentSymbol.kind \notin DirectiveKinds \cup {"None", "Newline", "Identifier", "Eof"}

\* One more iteration of the main loop, whichever it is: every action of Next
\* is such a step, and it is possible exactly when an action of Next is.
LoopIteration ==
    /\ Running
    /\ LoopGuard
    /\ tick' = ~tick

\* The main loop is sequential code: as long as it has not returned, its next
\* iteration is executed.
LiveSpec == Spec /\ WF_tick(LoopIteration)

\* C34: for every input and macro table, self-referential and mutually
\* recursive macros and a #define on a last line without a line break
\* included, preprocess_input eventually leaves its main loop, and until then
\* the loop always has an iteration to make.
C34_Termination ==
    /\ [](Running => LoopGuard)
    /\ <>(status # "running")

\* #define P Q / #define Q 2 P / P: the use of the mutually recursive P was
\* expanded and read, and the loop was left.
C34_Witness ==
    /\ status = "ok"
    /\ input = Concat(<<LineDefP, LineDefQ, LineUseP>>, FALSE)
    /\ NoSpaces(out[3]) = <<"2", "2">>

\* The loop of collect_arguments run for the invocation that is the current
\* symbol: the name is taken, the re-queue is empty.
CollectStart ==
    [lexer |-> Taken.lexer, args_stack |-> <<>>, paren_depth |-> 0,
     arg_idx |-> 0, args |-> [k \in 1..10 |-> <<>>],
     new_args_stack |-> <<>>, panicked |-> FALSE, done |-> FALSE]

Collected == collect_loop(CollectStart)

\* The current symbol of active code invokes a macro that takes arguments.
FunctionLikeInvocation ==
    /\ status = "running"
    /\ ~Skipping
    /\ MacroInvocation
    /\ macros[CurrentSymbol.text].args # NoArgs

\* C35: whatever the number of arguments of an invocation, argument
\* collection ends with an argument index in 0..9 and never indexes the ten
\* buckets out of range.
C35_ArgIndexWithinBuckets ==
    FunctionLikeInvocation => (Collected.arg_idx \in 0..9 /\ ~Collected.panicked)

\* The states of the loop of collect_arguments from c on: c, the state after
\* each iteration, and last the state the loop was left in.
RECURSIVE CollectTrace(_)
CollectTrace(c) == IF c.done THEN <<c>> ELSE <<c>> \o CollectTrace(collect_step(c))

\* C36: argument collection consumes the tokens from the "(" of the
\* invocation through its matching ")": paren_depth is never negative, the
\* loop goes on only inside the parentheses and is left at depth 0, and when
\* the name is not followed by "(" it consumes no token.
C36_ConsumesExactlyTheCall ==
    FunctionLikeInvocation =>
        LET tr == CollectTrace(CollectStart) IN
        /\ \A i \in DOMAIN tr : tr[i].paren_depth >= 0
        /\ \A i \in 2..Len(tr) : ~tr[i].done => tr[i].paren_depth >= 1
        /\ ~tr[Len(tr)].panicked => tr[Len(tr)].paren_depth = 0
        /\ LexerSymbol(Taken.lexer).kind # "LParen" => Collected.lexer = Taken.lexer

\* The symbols the loop took from the lexer inside inner parentheses, those
\* parentheses included, in source order: the symbol of iteration i counts
\* when the depth before or after it is greater than 1.
RECURSIVE InnerFrom(_, _)
InnerFrom(tr, i) ==
    IF i >= Len(tr) THEN <<>>
    ELSE (IF /\ LexerSymbol(tr[i].lexer) # None
             /\ (tr[i].paren_depth > 1 \/ tr[i + 1].paren_depth > 1)
          THEN <<LexerSymbol(tr[i].lexer)>>
          ELSE <<>>) \o InnerFrom(tr, i + 1)

\* C37: the re-queue that argument collection leaves holds every token
\* consumed at a depth greater than 1 exactly once, and pops them in source
\* order, at any depth of nesting.
C37_RequeueOnceInOrder ==
    FunctionLikeInvocation =>
        Reverse(collect_result(Collected).args_stack) = InnerFrom(CollectTrace(CollectStart), 1)

============================================================================
